---- MODULE Spec2Model ----
(***************************************************************************)
(* Model of the WA-bot scheduling and correlation engine:                  *)
(*   app/scheduler.py  (schedule_job, cancel_job, register_group, ...)     *)
(*   app/workers.py    (send_scheduled_message, DatabaseTask.on_failure)   *)
(*   app/logic.py      (record_correlation)                                *)
(*   app/db.py         (session_scope: commit on success, rollback on any  *)
(*                      exception)                                         *)
(*                                                                         *)
(* Datetimes are timezone-aware instants, counted in seconds.  A database  *)
(* row is a record; the tables are the committed rows.  A handler that     *)
(* runs inside one session_scope without waiting on the network is one     *)
(* action; the executor is split where it waits for the provider, and the  *)
(* task-failure handler, which opens its own session, is its own action.   *)
(* The Task Dispatcher (Celery) and the messaging provider are the         *)
(* environment: a bag of task messages delivered at least once, and the    *)
(* outcomes of a send.                                                     *)
(***************************************************************************)
EXTENDS Bags, FiniteSets, Integers, Sequences, TLC

(* ------------------------------ bounds --------------------------------- *)
MaxTasks == 2       \* tasks the Scheduling Engine may submit (one per Job insert, kept or rolled back)
MaxFires == 2       \* fire events the dispatcher delivers (the retries of a delivered event come on top)
StormFires == 4     \* fire events delivered in the redelivery specification
MaxRequests == 2    \* schedule requests in flight at once in the concurrent-scheduling specification
MaxNow == 320       \* the clock stops here

(* ------------------------- program constants --------------------------- *)
GraceMinutes == 5            \* scheduler.py:48  timedelta(minutes=5)
GraceBumpSeconds == 10       \* scheduler.py:49  timedelta(seconds=10)
MaxRetries == 5              \* workers.py:68    max_retries=5
RetryStepSeconds == 30       \* workers.py:102   30 * retries
RetryCapSeconds == 600       \* workers.py:102   min(600, ...)
MessageWindowHours == 12     \* config.py:30     message_window_hours
PendingGraceMinutes == 5     \* main.py:300      timedelta(minutes=5)
PendingGraceBumpSeconds == 10 \* main.py:301     timedelta(seconds=10)

(* --------------------------- value domains ----------------------------- *)
NULL == "NULL"               \* None in a nullable text column
NoTask == 0                  \* None in Job.celery_task_id
OwnerId == "owner-wa-id"
AliasInputs == {"Team", "ops"}           \* aliases the owner schedules to
RegAliases == {"team"}                   \* aliases the owner registers
GroupIds == {"111@g.us", "222"}
Texts == {"Standup"}
RunAts == {1, 400}
TickSteps == {150, 151}
ExecRunAts == {400}
Stranger == "stranger-wa-id"               \* a sender who is not the owner
Senders == {OwnerId, Stranger}
ScheduleText == "schedule \"Standup\" to Team at 400"
ScheduleConfigText == "Schedule to Team at 400"
ListText == " LIST "
ListAllText == "list all"
CancelText == "cancel 1"
RegisterText == "register group Team 111@g.us"
UnknownText == "unknown command"
OwnerTexts == {ScheduleText, ScheduleConfigText, ListText, ListAllText, CancelText, RegisterText, UnknownText}
GroupsText == "groups"
UnregisterText == "unregister group Team"
ScheduleBadTimeText == "schedule \"Standup\" to Team at soonish"
SchedulePastText == "schedule \"Standup\" to Team at 1"
ArmedTexts == {ScheduleText, ScheduleBadTimeText, SchedulePastText, ScheduleConfigText, ListText, CancelText, GroupsText, RegisterText, UnregisterText, UnknownText}
NoTime == 0 - 1                            \* parse_natural_datetime returns None
Member == "member-wa-id"                   \* a member of a group
BotNumber == "bot-phone-number-id"         \* settings.wa_phone_number_id
GroupSenders == {Member, BotNumber}
NoGroupId == ""                            \* a group message without group id
ApiOutcomes == {"accepted", "template accepted", "template rejected", "rejected"}
LiveRunAts == {151}                        \* run_at of the Job whose progress is followed
GroupAliasInputs == {"Team", "team", "ops"} \* aliases as the owner types them
GroupNames == {"Team", "Ops", NULL}        \* the optional display name
ResolveTimes == {100, 43200, 43201, 43300} \* clock readings around two window ends
UnknownMessageId == <<"wamid", 0>>        \* a context id that no Correlation holds
NoContext == <<>>                         \* context_message_id is None
EmptyContext == <<"">>                    \* context_message_id is the empty string
CompleteRunAts == {1, 400}                \* stored run_at values that content completes
ArmRunAts == {2, 400}                     \* run_at values of the ScheduleConfig commands
OwnerSteps == {151}                       \* clock steps between the owner's messages
Contents == {"Notes", "  "}               \* forwarded content: a text and a blank one
OpsRunAts == {400, 350}                   \* two Jobs, the later one scheduled first or second
TimeRunAts == {0, 302}                    \* run_at values around the grace window

\* JobStatus (models.py:16-20)
SCHEDULED == "scheduled"
SENT == "sent"
CANCELLED == "cancelled"
FAILED == "failed"
JobStatus == {SCHEDULED, SENT, CANCELLED, FAILED}

\* str(exc) of the exceptions that reach DatabaseTask.on_failure
ErrHttpStatus == "HTTPStatusError"
ErrSend == "SendError"
ErrNoMessageId == "No message id returned from WhatsApp"
ErrMultipleResults == "MultipleResultsFound"
ErrNullMessageId == "IntegrityError: NOT NULL message_correlations.bot_message_id"

Min(a, b) == IF a <= b THEN a ELSE b

MaxOf(S) == CHOOSE x \in S : \A y \in S : y <= x

\* str.lower() on the alias inputs
Lower_unchanged(a) == a

Lower(a) ==
    CASE a = "Team" -> "team"
      [] a = "Schedule" -> "schedule"
      [] a = "LIST" -> "list"
      [] OTHER -> a

VARIABLES
    now,        \* the wall clock, seconds
    groups,     \* table groups: alias -> [group_id, group_name]
    jobs,       \* table jobs: id -> Job row
    corrs,      \* table message_correlations: set of rows
    pending,    \* table pending_schedules: set of rows
    queue,      \* dispatcher: bag of task messages waiting for delivery
    revoked,    \* dispatcher: task ids for which a revoke was requested
    nextTask,   \* number of tasks submitted so far (task ids are 1..nextTask)
    inflight,   \* bag of executor attempts between their re-read and their end
    requests,   \* bag of schedule requests between their existence check and their insert
    fires,      \* number of fire events delivered so far
    sends,      \* history: job id -> number of sends the provider accepted
    created,    \* history: job id -> number of MessageCorrelation rows ever inserted
    cancelSeen, \* history: job ids whose cancel of a Scheduled Job has committed
    schedLog,   \* history: the committed schedule calls and what they returned
    last        \* history: the last operation and its result

dbVars == <<groups, jobs, corrs, pending>>
dispVars == <<queue, revoked, nextTask, fires>>
procVars == <<inflight, requests>>
histVars == <<sends, created, cancelSeen, schedLog>>
vars == <<now, groups, jobs, corrs, pending, queue, revoked, nextTask, fires,
          inflight, requests, sends, created, cancelSeen, schedLog, last>>

JobIds == 1..MaxTasks

Init ==
    /\ now = 0
    /\ groups = <<>>
    /\ jobs = <<>>
    /\ corrs = {}
    /\ pending = {}
    /\ queue = EmptyBag
    /\ revoked = {}
    /\ nextTask = 0
    /\ inflight = EmptyBag
    /\ requests = EmptyBag
    /\ fires = 0
    /\ sends = [j \in JobIds |-> 0]
    /\ created = [j \in JobIds |-> 0]
    /\ cancelSeen = {}
    /\ schedLog = {}
    /\ last = [op |-> "init"]

(* ----------------------------- the clock ------------------------------- *)
Tick(d) ==
    /\ now + d <= MaxNow
    /\ now' = now + d
    /\ last' = [op |-> "tick"]
    /\ UNCHANGED <<dbVars, dispVars, procVars, histVars>>

(* --------------------------- Group Registry ---------------------------- *)
\* the row register_group leaves for the alias: an existing row gets the
\* new group_id and group_name, otherwise a row is inserted
registered_group_keeps_existing(alias, group_id, group_name) ==
    IF alias \in DOMAIN groups
    THEN groups[alias]
    ELSE [group_id |-> group_id, group_name |-> group_name]

registered_group(alias, group_id, group_name) ==
    IF alias \in DOMAIN groups
    THEN [groups[alias] EXCEPT !.group_id = group_id, !.group_name = group_name]
    ELSE [group_id |-> group_id, group_name |-> group_name]

register_group(alias, group_id, group_name) ==
    /\ groups' = [a \in DOMAIN groups \cup {Lower(alias)} |->
                    IF a = Lower(alias)
                    THEN registered_group(Lower(alias), group_id, group_name)
                    ELSE groups[a]]
    /\ last' = [op |-> "register_group", alias |-> Lower(alias), input |-> alias,
                group_id |-> group_id, group_name |-> group_name]
    /\ UNCHANGED <<now, jobs, corrs, pending, dispVars, procVars, histVars>>

unregister_group(alias) ==
    /\ IF Lower(alias) \in DOMAIN groups
       THEN /\ groups' = [a \in DOMAIN groups \ {Lower(alias)} |-> groups[a]]
            /\ last' = [op |-> "unregister_group", alias |-> alias, result |-> TRUE]
       ELSE /\ groups' = groups
            /\ last' = [op |-> "unregister_group", alias |-> alias, result |-> FALSE]
    /\ UNCHANGED <<now, jobs, corrs, pending, dispVars, procVars, histVars>>

(* -------------------------- Scheduling Engine --------------------------- *)
\* sha256 of "group_id|text|run_at.isoformat()": the digest is represented by
\* the payload it is computed from (group ids and texts here hold no "|").
_generate_correlation_key(group_id, text, run_at) ==
    <<group_id, "|", text, "|", ToString(run_at)>>

\* the grace adjustment: run_at_utc <= current_utc within five minutes is
\* moved to current_utc + 10 seconds
grace_adjust_strictly_past(run_at) ==
    IF run_at < now THEN now + GraceBumpSeconds ELSE run_at

grace_adjust(run_at) ==
    IF run_at <= now THEN now + GraceBumpSeconds ELSE run_at

\* raise ValueError("Scheduled time is in the past.")
past_schedule_hours(run_at) ==
    run_at <= now /\ (now - run_at) > GraceMinutes * 3600

past_schedule(run_at) ==
    run_at <= now /\ (now - run_at) > GraceMinutes * 60

\* select(Job).where(Job.correlation_key == correlation_key)
existing_job_none(key) == {}

existing_job(key) == {j \in DOMAIN jobs : jobs[j].correlation_key = key}

\* Job.correlation_key is unique: an INSERT of a key that a committed row
\* carries raises IntegrityError
unique_violation(key) == \E j \in DOMAIN jobs : jobs[j].correlation_key = key

\* Job.id is an INTEGER PRIMARY KEY of the default SQLite database: the next
\* rowid is one more than the largest rowid in the table.
NextJobId == IF DOMAIN jobs = {} THEN 1 ELSE MaxOf(DOMAIN jobs) + 1

\* send_task("app.workers.send_scheduled_message", args=[job.id], eta=run_at_utc)
NewTask_without_eta(job_id, eta) ==
    [id |-> nextTask + 1, job_id |-> job_id, eta |-> now, retries |-> 0, countdown |-> 0]

NewTask(job_id, eta) ==
    [id |-> nextTask + 1, job_id |-> job_id, eta |-> eta, retries |-> 0, countdown |-> 0]

One(x) == SetToBag({x})

\* a committed schedule call: its arguments, the destination its alias
\* resolved to, the clock it read and the Job id it returned
LogEntry(group_alias, group, text, run_at, created_by, id) ==
    [alias |-> group_alias, text |-> text, run_at |-> run_at,
     created_by |-> created_by, group_id |-> group.group_id, at |-> now, id |-> id]

Called(group_alias, text, run_at, id, result) ==
    [op |-> "schedule", alias |-> group_alias, text |-> text, run_at |-> run_at,
     id |-> id, result |-> result]

\* table jobs after "if existing_job: return existing_job"
existing_returned_rescheduled(id) == [jobs EXCEPT ![id].status = SCHEDULED]

existing_returned(id) == jobs

\* the existing Job is returned; nothing is written
return_existing(group_alias, group, text, run_at, created_by, id, commit) ==
    /\ last' = Called(group_alias, text, run_at, id, "existing")
    /\ schedLog' = IF commit
                   THEN schedLog \cup {LogEntry(group_alias, group, text, run_at, created_by, id)}
                   ELSE schedLog
    /\ jobs' = existing_returned(id)
    /\ UNCHANGED <<queue, nextTask>>

\* session.add(job); session.flush(); send_task(...); job.celery_task_id =
\* task.id, and the end of the session_scope.  commit = FALSE: a statement of
\* the caller after schedule_job raises and session_scope rolls the session
\* back; the task already handed to the dispatcher is not taken back.
insert_job(group_alias, group, text, run_at, run_at_utc, created_by, correlation_key, commit) ==
    LET id == NextJobId
        task == NewTask(id, run_at_utc)
        job == [group_id |-> group.group_id,
                group_alias |-> group.alias,
                text |-> text,
                run_at |-> run_at_utc,
                created_by |-> created_by,
                celery_task_id |-> task.id,
                status |-> SCHEDULED,
                last_error |-> NULL,
                correlation_key |-> correlation_key]
    IN
    /\ nextTask < MaxTasks
    /\ queue' = queue (+) One(task)
    /\ nextTask' = nextTask + 1
    /\ jobs' = IF commit THEN jobs @@ (id :> job) ELSE jobs
    /\ schedLog' = IF commit
                   THEN schedLog \cup {LogEntry(group_alias, group, text, run_at, created_by, id)}
                   ELSE schedLog
    /\ last' = Called(group_alias, text, run_at, id,
                      IF commit THEN "created" ELSE "rolled_back")

\* schedule_job inside one session_scope, no other session writing meanwhile
schedule_job(group_alias, text, run_at, created_by, commit) ==
    LET alias == Lower(group_alias) IN
    /\ UNCHANGED <<now, groups, corrs, pending, revoked, fires, procVars,
                   sends, created, cancelSeen>>
    /\ IF alias \notin DOMAIN groups
       THEN /\ last' = Called(group_alias, text, run_at, 0, "UnknownGroupAlias")
            /\ UNCHANGED <<jobs, queue, nextTask, schedLog>>
       ELSE IF past_schedule(run_at)
       THEN /\ last' = Called(group_alias, text, run_at, 0, "PastSchedule")
            /\ UNCHANGED <<jobs, queue, nextTask, schedLog>>
       ELSE LET group == [alias |-> alias, group_id |-> groups[alias].group_id]
                correlation_key ==
                    _generate_correlation_key(group.group_id, text, grace_adjust(run_at))
                existing == existing_job(correlation_key)
            IN
            IF existing # {}
            THEN return_existing(group_alias, group, text, run_at, created_by,
                                 CHOOSE j \in existing : TRUE, commit)
            ELSE insert_job(group_alias, group, text, run_at, grace_adjust(run_at),
                            created_by, correlation_key, commit)

\* schedule_job of one of several concurrent requests, up to the existence
\* check: a request that finds no Job goes on to the insert
schedule_job_lookup(group_alias, text, run_at, created_by) ==
    LET alias == Lower(group_alias) IN
    /\ UNCHANGED <<now, dbVars, dispVars, inflight, sends, created, cancelSeen>>
    /\ IF alias \notin DOMAIN groups
       THEN /\ last' = Called(group_alias, text, run_at, 0, "UnknownGroupAlias")
            /\ UNCHANGED <<requests, schedLog>>
       ELSE IF past_schedule(run_at)
       THEN /\ last' = Called(group_alias, text, run_at, 0, "PastSchedule")
            /\ UNCHANGED <<requests, schedLog>>
       ELSE LET group == [alias |-> alias, group_id |-> groups[alias].group_id]
                correlation_key ==
                    _generate_correlation_key(group.group_id, text, grace_adjust(run_at))
                existing == existing_job(correlation_key)
            IN
            IF existing # {}
            THEN /\ return_existing(group_alias, group, text, run_at, created_by,
                                    CHOOSE j \in existing : TRUE, TRUE)
                 /\ UNCHANGED requests
            ELSE /\ requests' = requests (+)
                        One([alias |-> group_alias, group |-> group, text |-> text,
                             run_at |-> run_at, run_at_utc |-> grace_adjust(run_at),
                             created_by |-> created_by,
                             correlation_key |-> correlation_key])
                 /\ last' = [op |-> "schedule_lookup"]
                 /\ UNCHANGED schedLog

\* the rest of schedule_job for such a request: the INSERT is checked against
\* the unique constraint; schedule_job has no handler for the IntegrityError,
\* which leaves through session_scope (rollback, re-raise)
schedule_job_insert(r, commit) ==
    /\ BagIn(r, requests)
    /\ requests' = requests (-) One(r)
    /\ UNCHANGED <<now, groups, corrs, pending, revoked, fires, inflight,
                   sends, created, cancelSeen>>
    /\ IF unique_violation(r.correlation_key)
       THEN /\ last' = Called(r.alias, r.text, r.run_at, 0, "IntegrityError")
            /\ UNCHANGED <<jobs, queue, nextTask, schedLog>>
       ELSE insert_job(r.alias, r.group, r.text, r.run_at, r.run_at_utc,
                       r.created_by, r.correlation_key, commit)

\* if job.status in {JobStatus.CANCELLED, JobStatus.SENT}: return True
cancel_returns_early_cancelled_only(status) == status = CANCELLED

cancel_returns_early(status) == status \in {CANCELLED, SENT}

\* job.status = JobStatus.CANCELLED; job.last_error = None
cancelled_job_keeps_error(job) == [job EXCEPT !.status = CANCELLED]

cancelled_job(job) == [job EXCEPT !.status = CANCELLED, !.last_error = NULL]

\* cancel_job; the label records the revoke(task_id, terminate=False) the call
\* issued, NoTask when it issued none
cancel_job(job_id) ==
    /\ UNCHANGED <<now, groups, corrs, pending, queue, nextTask, fires, procVars,
                   sends, created, schedLog>>
    /\ IF job_id \notin DOMAIN jobs
       THEN /\ last' = [op |-> "cancel", id |-> job_id, result |-> FALSE,
                        revoke |-> NoTask]
            /\ UNCHANGED <<jobs, revoked, cancelSeen>>
       ELSE IF cancel_returns_early(jobs[job_id].status)
       THEN /\ last' = [op |-> "cancel", id |-> job_id, result |-> TRUE,
                        revoke |-> NoTask]
            /\ UNCHANGED <<jobs, revoked, cancelSeen>>
       ELSE /\ jobs' = [jobs EXCEPT ![job_id] = cancelled_job(@)]
            /\ revoked' = IF jobs[job_id].celery_task_id # NoTask
                          THEN revoked \cup {jobs[job_id].celery_task_id}
                          ELSE revoked
            /\ cancelSeen' = IF jobs[job_id].status = SCHEDULED
                             THEN cancelSeen \cup {job_id}
                             ELSE cancelSeen
            /\ last' = [op |-> "cancel", id |-> job_id, result |-> TRUE,
                        revoke |-> jobs[job_id].celery_task_id]

\* list_jobs: the Scheduled Jobs, ORDER BY run_at ASC; rows with equal run_at
\* come in any order
list_filter_not_finished(status) == status \notin {CANCELLED, SENT}

list_filter(status) == status = SCHEDULED

list_jobs ==
    LET rows == {j \in DOMAIN jobs : list_filter(jobs[j].status)}
        n == Cardinality(rows)
    IN {s \in [1..n -> rows] :
          /\ \A i \in 1..n, k \in 1..n : i # k => s[i] # s[k]
          /\ \A i \in 1..n, k \in 1..n :
                i < k => jobs[s[i]].run_at <= jobs[s[k]].run_at}

\* the owner's list command and GET /jobs
List ==
    /\ \E s \in list_jobs : last' = [op |-> "list", result |-> s]
    /\ UNCHANGED <<now, dbVars, dispVars, procVars, histVars>>

(* ------------------------ Pending Schedule State ------------------------ *)
\* session_scope: commit when the block ends, rollback when it raises
session_scope_commits_anyway(commit, new, old) == new

session_scope(commit, new, old) == IF commit THEN new ELSE old

\* select(PendingSchedule).where(PendingSchedule.owner_id == owner_id)
get_pending_schedule(owner_id) == {p \in pending : p.owner_id = owner_id}

\* PendingSchedule.owner_id is unique: an INSERT for an owner who has a
\* committed row raises IntegrityError
pending_unique_violation(owner_id) == get_pending_schedule(owner_id) # {}

\* save_pending_schedule.  seen: the group_alias of the owner's rows as the
\* session loaded them.  Without a row one is inserted, created_at being the time of the
\* insert.  With a row the three attributes are assigned and the UPDATE
\* issued at commit writes the columns whose assigned value differs from
\* the loaded one: group_alias when the alias is another one; run_at and
\* created_at always (the stored datetimes are read back without a
\* timezone and the assigned ones carry UTC).
save_pending_schedule(seen, owner_id, group_alias, run_at) ==
    IF seen # {}
    THEN (pending \ get_pending_schedule(owner_id)) \cup
           {[p EXCEPT !.group_alias =
                          IF Lower(group_alias) \in seen
                          THEN @ ELSE Lower(group_alias),
                      !.run_at = run_at,
                      !.created_at = now] : p \in get_pending_schedule(owner_id)}
    ELSE pending \cup {[owner_id |-> owner_id, group_alias |-> Lower(group_alias),
                        run_at |-> run_at, created_at |-> now]}

\* clear_pending_schedule
clear_pending_schedule_skipped(owner_id) == pending

clear_pending_schedule(owner_id) == pending \ get_pending_schedule(owner_id)

\* content_text.strip() is empty
IsBlank_empty_only(text) == text = ""

IsBlank(text) == text = "  "

\* the reason for which handle_owner_command refuses a ScheduleConfig:
\* get_group_by_alias finds no group, or run_at_utc <= utc_now()
config_rejection_alias_only(group_alias, run_at) ==
    IF Lower(group_alias) \notin DOMAIN groups THEN "UnknownGroupAlias" ELSE "none"

config_rejection(group_alias, run_at) ==
    IF Lower(group_alias) \notin DOMAIN groups THEN "UnknownGroupAlias"
    ELSE IF run_at <= now THEN "PastSchedule"
    ELSE "none"

\* ScheduleConfig, first half: process_owner_message loads the owner's row,
\* handle_owner_command resolves the alias and refuses a run_at that is not
\* in the future; what is left is the write
schedule_config_begin(group_alias, run_at) ==
    /\ UNCHANGED <<now, dbVars, dispVars, inflight, histVars>>
    /\ IF config_rejection(group_alias, run_at) # "none"
       THEN /\ last' = [op |-> "schedule_config", alias |-> group_alias,
                        run_at |-> run_at,
                        result |-> config_rejection(group_alias, run_at),
                        committed |-> TRUE]
            /\ UNCHANGED requests
       ELSE /\ requests' = requests (+)
                  One([alias |-> group_alias, group_alias |-> Lower(group_alias),
                       run_at |-> run_at,
                       seen |-> {p.group_alias : p \in get_pending_schedule(OwnerId)}])
            /\ last' = [op |-> "schedule_config_begin"]

\* ScheduleConfig, second half: the flush of save_pending_schedule, the
\* reply to the owner and the end of the session_scope.  The UPDATE of a row
\* that another session deleted meanwhile matches no row (StaleDataError);
\* the INSERT for an owner who got a row meanwhile violates the unique
\* constraint.  reply_ok = FALSE: the reply raises.
schedule_config_finish(r, reply_ok) ==
    /\ BagIn(r, requests)
    /\ requests' = requests (-) One(r)
    /\ UNCHANGED <<now, groups, jobs, corrs, dispVars, inflight, histVars>>
    /\ IF r.seen # {} /\ get_pending_schedule(OwnerId) = {}
       THEN /\ last' = [op |-> "schedule_config", alias |-> r.alias,
                        run_at |-> r.run_at, result |-> "StaleDataError",
                        committed |-> FALSE]
            /\ UNCHANGED pending
       ELSE IF r.seen = {} /\ pending_unique_violation(OwnerId)
       THEN /\ last' = [op |-> "schedule_config", alias |-> r.alias,
                        run_at |-> r.run_at, result |-> "IntegrityError",
                        committed |-> FALSE]
            /\ UNCHANGED pending
       ELSE /\ pending' = session_scope(reply_ok,
                             save_pending_schedule(r.seen, OwnerId, r.group_alias, r.run_at),
                             pending)
            /\ last' = [op |-> "schedule_config", alias |-> r.alias,
                        run_at |-> r.run_at,
                        result |-> "stored", found |-> r.seen # {},
                        committed |-> reply_ok]

\* what schedule_job does in the state it is called in: the ValueError it
\* raises, or the Job it returns and, for a new Job, the row and the task
schedule_job_outcome(group_alias, text, run_at, created_by) ==
    LET alias == Lower(group_alias) IN
    IF alias \notin DOMAIN groups
    THEN [result |-> "UnknownGroupAlias", id |-> 0]
    ELSE IF past_schedule(run_at)
    THEN [result |-> "PastSchedule", id |-> 0]
    ELSE LET group == [alias |-> alias, group_id |-> groups[alias].group_id]
             run_at_utc == grace_adjust(run_at)
             correlation_key == _generate_correlation_key(group.group_id, text, run_at_utc)
             existing == existing_job(correlation_key)
         IN IF existing # {}
            THEN [result |-> "existing", id |-> CHOOSE j \in existing : TRUE,
                  group |-> group]
            ELSE [result |-> "created", id |-> NextJobId, group |-> group,
                  task |-> NewTask(NextJobId, run_at_utc),
                  job |-> [group_id |-> group.group_id,
                           group_alias |-> group.alias,
                           text |-> text,
                           run_at |-> run_at_utc,
                           created_by |-> created_by,
                           celery_task_id |-> nextTask + 1,
                           status |-> SCHEDULED,
                           last_error |-> NULL,
                           correlation_key |-> correlation_key]]

\* schedule_job for a new Job up to its return: the row is flushed and the
\* task is handed to the dispatcher with eta = run_at_utc; the row is not
\* committed yet
schedule_job_submit(group_alias, text, run_at) ==
    LET out == schedule_job_outcome(group_alias, text, run_at, OwnerId) IN
    /\ out.result = "created"
    /\ nextTask < MaxTasks
    /\ queue' = queue (+) One(out.task)
    /\ nextTask' = nextTask + 1
    /\ requests' = requests (+) One([id |-> out.id, job |-> out.job])
    /\ last' = [op |-> "schedule_submit", id |-> out.id]
    /\ UNCHANGED <<now, dbVars, revoked, fires, inflight, histVars>>

\* the end of the session_scope of that call: the reply to the owner has
\* been sent and the row is committed
session_commit(r) ==
    /\ BagIn(r, requests)
    /\ requests' = requests (-) One(r)
    /\ jobs' = jobs @@ (r.id :> r.job)
    /\ last' = [op |-> "schedule_commit", id |-> r.id]
    /\ UNCHANGED <<now, groups, corrs, pending, dispVars, inflight, histVars>>

\* whether the PendingSchedule is cleared: after a Job was returned, and in
\* the two-step flow also after a ValueError
clears_pending_on_success_only(via, ok) == ok

clears_pending(via, ok) == ok \/ via = "content"

\* An owner message that ends in schedule_job: the schedule command
\* (via = "schedule_command") or content forwarded while a PendingSchedule
\* waits (via = "content").  A ValueError is reported to the owner and clears
\* the PendingSchedule of the two-step flow only; a Job returned clears it in
\* both.  reply_ok = FALSE: the reply to the owner raises and session_scope
\* rolls back; the task handed to the dispatcher stays.
owner_schedules(via, group_alias, text, run_at, adjusted, reply_ok) ==
    LET out == schedule_job_outcome(group_alias, text, run_at, OwnerId)
        ok == out.result \in {"created", "existing"}
    IN
    /\ out.result = "created" => nextTask < MaxTasks
    /\ queue' = IF out.result = "created" THEN queue (+) One(out.task) ELSE queue
    /\ nextTask' = IF out.result = "created" THEN nextTask + 1 ELSE nextTask
    /\ jobs' = session_scope(reply_ok,
                             IF out.result = "created"
                             THEN jobs @@ (out.id :> out.job) ELSE jobs,
                             jobs)
    /\ pending' = session_scope(reply_ok,
                                IF clears_pending(via, ok)
                                THEN clear_pending_schedule(OwnerId) ELSE pending,
                                pending)
    /\ last' = [op |-> via, alias |-> group_alias, text |-> text, run_at |-> run_at,
                adjusted |-> adjusted, id |-> out.id, result |-> out.result,
                committed |-> reply_ok]
    /\ UNCHANGED <<now, groups, corrs, revoked, fires, procVars, histVars>>

\* handle_owner_command, ScheduleCommand
schedule_command(group_alias, text, run_at, reply_ok) ==
    owner_schedules("schedule_command", group_alias, text, run_at, FALSE, reply_ok)

\* _complete_pending_schedule: a stored run_at that has passed is moved to
\* now + 10 s when the PendingSchedule is at most 5 minutes old
pending_run_at(p) ==
    IF p.run_at <= now /\ (now - p.created_at) <= PendingGraceMinutes * 60
    THEN now + PendingGraceBumpSeconds
    ELSE p.run_at

\* process_owner_message with a text that is no command
content_message(text, reply_ok) ==
    LET cur == get_pending_schedule(OwnerId) IN
    IF cur = {}
    THEN /\ last' = [op |-> "content", text |-> text, result |-> "NotArmed",
                     committed |-> reply_ok]
         /\ UNCHANGED <<now, dbVars, dispVars, procVars, histVars>>
    ELSE IF IsBlank(text)
    THEN /\ last' = [op |-> "content", text |-> text, result |-> "EmptyContent",
                     committed |-> reply_ok]
         /\ UNCHANGED <<now, dbVars, dispVars, procVars, histVars>>
    ELSE LET p == CHOOSE q \in cur : TRUE IN
         owner_schedules("content", p.group_alias, text, pending_run_at(p),
                         pending_run_at(p) # p.run_at, reply_ok)

\* handle_owner_command, RegisterGroupCommand
register_group_command(alias, group_id, group_name, reply_ok) ==
    IF reply_ok
    THEN register_group(alias, group_id, group_name)
    ELSE /\ last' = [op |-> "register_group", alias |-> Lower(alias),
                     committed |-> FALSE]
         /\ UNCHANGED <<now, dbVars, dispVars, procVars, histVars>>

\* handle_owner_command, CancelCommand; when the reply raises the status
\* change is rolled back and the revoke stays requested
cancel_command(job_id, reply_ok) ==
    IF reply_ok
    THEN cancel_job(job_id)
    ELSE /\ revoked' = IF /\ job_id \in DOMAIN jobs
                          /\ ~cancel_returns_early(jobs[job_id].status)
                          /\ jobs[job_id].celery_task_id # NoTask
                       THEN revoked \cup {jobs[job_id].celery_task_id}
                       ELSE revoked
         /\ last' = [op |-> "cancel", id |-> job_id, result |-> "rolled_back",
                     revoke |-> NoTask, committed |-> FALSE]
         /\ UNCHANGED <<now, dbVars, queue, nextTask, fires, procVars, histVars>>

(* ----------------------------- Job Executor ----------------------------- *)
\* select(MessageCorrelation).where(MessageCorrelation.job_id == job.id)
CorrelationsOf(job_id) == {c \in corrs : c.job_id = job_id}

\* the status checks after the re-read: Cancelled and Sent end the attempt
status_guard_sent_only(status) == status = SENT

status_guard(status) == status \in {CANCELLED, SENT}

\* An attempt that has passed the guards.  had_error: the Job row this
\* session loaded carried a last_error (the ORM's UPDATE writes only the
\* columns whose value differs from the loaded one).
Attempt(m, pc, err) ==
    [task_id |-> m.id, job_id |-> m.job_id, retries |-> m.retries,
     had_error |-> jobs[m.job_id].last_error # NULL,
     pc |-> pc, err |-> err]

Failing(a, err) == [a EXCEPT !.pc = "failing", !.err = err]

\* job.status = SENT; job.last_error = None, as the session's flush writes it
mark_job_sent(job_id, had_error) ==
    [jobs EXCEPT ![job_id].status = SENT,
                 ![job_id].last_error = IF had_error THEN NULL ELSE @]

\* job.status = FAILED; job.last_error = error
mark_job_failed_skipped(job_id, error) == jobs

mark_job_failed(job_id, error) ==
    IF job_id \in DOMAIN jobs
    THEN [jobs EXCEPT ![job_id].status = FAILED, ![job_id].last_error = error]
    ELSE jobs

\* A worker receives task message m and runs send_scheduled_message up to
\* the call of the provider.  dup: the dispatcher keeps the message and
\* delivers it again later (at-least-once delivery).  The dispatcher's wait
\* for the eta is not followed: a message may be delivered at any time.
send_scheduled_message(m, dup) ==
    /\ BagIn(m, queue)
    /\ queue' = IF dup THEN queue ELSE queue (-) One(m)
    /\ fires' = IF dup \/ m.retries = 0 THEN fires + 1 ELSE fires
    /\ last' = [op |-> "fire", id |-> m.job_id]
    /\ UNCHANGED <<now, groups, corrs, pending, revoked, nextTask, requests, histVars>>
    /\ IF m.job_id \notin DOMAIN jobs
       THEN UNCHANGED <<jobs, inflight>>
       ELSE IF status_guard(jobs[m.job_id].status)
       THEN UNCHANGED <<jobs, inflight>>
       ELSE IF Cardinality(CorrelationsOf(m.job_id)) > 1
       THEN \* scalar_one_or_none() raises MultipleResultsFound
            /\ inflight' = inflight (+) One(Attempt(m, "failing", ErrMultipleResults))
            /\ UNCHANGED jobs
       ELSE IF CorrelationsOf(m.job_id) # {}
       THEN /\ jobs' = mark_job_sent(m.job_id, jobs[m.job_id].last_error # NULL)
            /\ UNCHANGED inflight
       ELSE /\ inflight' = inflight (+) One(Attempt(m, "sending", NULL))
            /\ UNCHANGED jobs

\* a worker that has seen the revoke drops the task message
discard_revoked(m) ==
    /\ BagIn(m, queue)
    /\ m.id \in revoked
    /\ queue' = queue (-) One(m)
    /\ last' = [op |-> "discard", id |-> m.job_id]
    /\ UNCHANGED <<now, dbVars, revoked, nextTask, fires, procVars, histVars>>

RECURSIVE SumOver(_, _)
SumOver(f, S) ==
    IF S = {} THEN 0
    ELSE LET x == CHOOSE y \in S : TRUE IN f[x] + SumOver(f, S \ {x})

\* the id the provider gives the next message it accepts
NextMessageId == <<"wamid", SumOver(sends, JobIds) + 1>>

\* record_correlation: window_expires_at = utc_now() + message_window_hours
record_correlation(job_id, group_id, bot_message_id) ==
    [job_id |-> job_id, group_id |-> group_id, bot_message_id |-> bot_message_id,
     window_expires_at |-> now + MessageWindowHours * 3600,
     created_at |-> now]

\* dest = job.group_id: the destination of the send and of the Correlation
send_destination_by_alias(job_id) ==
    IF jobs[job_id].group_alias \in DOMAIN groups
    THEN groups[jobs[job_id].group_alias].group_id
    ELSE jobs[job_id].group_id

send_destination(job_id) == jobs[job_id].group_id

\* the provider accepts the message and returns its id; the Correlation and
\* the Job's new status are committed together
send_ok(a) ==
    /\ BagIn(a, inflight) /\ a.pc = "sending"
    /\ inflight' = inflight (-) One(a)
    /\ sends' = [sends EXCEPT ![a.job_id] = @ + 1]
    /\ corrs' = corrs \cup
                  {record_correlation(a.job_id, send_destination(a.job_id), NextMessageId)}
    /\ created' = [created EXCEPT ![a.job_id] = @ + 1]
    /\ jobs' = mark_job_sent(a.job_id, a.had_error)
    /\ last' = [op |-> "send_ok", id |-> a.job_id]
    /\ UNCHANGED <<now, groups, pending, dispVars, requests, cancelSeen, schedLog>>

\* the provider accepts the message and returns no id.  empty: "messages" is
\* empty, mark_job_failed and RuntimeError; otherwise the first entry holds
\* no "id" and record_correlation's flush fails on the NOT NULL column.
\* Either exception rolls the session back.
send_no_id(a, empty) ==
    /\ BagIn(a, inflight) /\ a.pc = "sending"
    /\ inflight' = (inflight (-) One(a)) (+)
                     One(Failing(a, IF empty THEN ErrNoMessageId ELSE ErrNullMessageId))
    /\ sends' = [sends EXCEPT ![a.job_id] = @ + 1]
    /\ jobs' = session_scope(FALSE,
                             IF empty THEN mark_job_failed(a.job_id, ErrNoMessageId)
                                      ELSE jobs,
                             jobs)
    /\ last' = [op |-> "send_no_id", id |-> a.job_id]
    /\ UNCHANGED <<now, groups, corrs, pending, dispVars, requests,
                   created, cancelSeen, schedLog>>

\* countdown = min(600, 30 * retries) with retries = self.request.retries + 1
retry_countdown_request_retries(retries) ==
    Min(RetryCapSeconds, RetryStepSeconds * (retries - 1))

retry_countdown(retries) == Min(RetryCapSeconds, RetryStepSeconds * retries)

\* httpx.HTTPStatusError: self.retry(exc=exc, countdown=countdown) submits the
\* task again under the same task id, or re-raises exc once retries exceeds
\* max_retries.  The Retry exception rolls the session back.
send_http_error(a) ==
    LET retries == a.retries + 1 IN
    /\ BagIn(a, inflight) /\ a.pc = "sending"
    /\ last' = [op |-> "send_http_error", id |-> a.job_id]
    /\ UNCHANGED <<now, dbVars, revoked, nextTask, fires, requests, histVars>>
    /\ IF retries > MaxRetries
       THEN /\ inflight' = (inflight (-) One(a)) (+) One(Failing(a, ErrHttpStatus))
            /\ UNCHANGED queue
       ELSE /\ inflight' = inflight (-) One(a)
            /\ queue' = queue (+)
                  One([id |-> a.task_id, job_id |-> a.job_id,
                       eta |-> now + retry_countdown(retries),
                       retries |-> retries, countdown |-> retry_countdown(retries)])

\* any other exception of the send is re-raised
send_exception(a) ==
    /\ BagIn(a, inflight) /\ a.pc = "sending"
    /\ inflight' = (inflight (-) One(a)) (+) One(Failing(a, ErrSend))
    /\ last' = [op |-> "send_exception", id |-> a.job_id]
    /\ UNCHANGED <<now, dbVars, dispVars, requests, histVars>>

\* DatabaseTask.on_failure: a new session marks the Job Failed
on_failure(a) ==
    /\ BagIn(a, inflight) /\ a.pc = "failing"
    /\ inflight' = inflight (-) One(a)
    /\ jobs' = mark_job_failed(a.job_id, a.err)
    /\ last' = [op |-> "on_failure", id |-> a.job_id]
    /\ UNCHANGED <<now, groups, corrs, pending, dispVars, requests, histVars>>

Deliver(limit) ==
    \E m \in BagToSet(queue), dup \in BOOLEAN :
        /\ (dup \/ m.retries = 0) => fires < limit
        /\ send_scheduled_message(m, dup)

Discard == \E m \in BagToSet(queue) : discard_revoked(m)

\* the dispatcher delivers a task once: a new task when its eta has come, a
\* retry whenever it was asked for
DeliverDue ==
    \E m \in BagToSet(queue) :
        /\ m.retries = 0 => m.eta <= now
        /\ send_scheduled_message(m, FALSE)

SendOk == \E a \in BagToSet(inflight) : send_ok(a)

SendNoId == \E a \in BagToSet(inflight), empty \in BOOLEAN : send_no_id(a, empty)

SendHttpError == \E a \in BagToSet(inflight) : send_http_error(a)

SendException == \E a \in BagToSet(inflight) : send_exception(a)

OnFailure == \E a \in BagToSet(inflight) : on_failure(a)

(* ---------------------------- Owner Messages ---------------------------- *)
\* message.strip() split at whitespace
Words(text) ==
    CASE text = ScheduleText -> <<"schedule", "\"Standup\"", "to", "Team", "at", "400">>
      [] text = ScheduleConfigText -> <<"Schedule", "to", "Team", "at", "400">>
      [] text = ListText -> <<"LIST">>
      [] text = ListAllText -> <<"list", "all">>
      [] text = CancelText -> <<"cancel", "1">>
      [] text = RegisterText -> <<"register", "group", "Team", "111@g.us">>
      [] text = UnknownText -> <<"unknown", "command">>
      [] text = UnregisterText -> <<"unregister", "group", "Team">>
      [] text = ScheduleBadTimeText -> <<"schedule", "\"Standup\"", "to", "Team", "at", "soonish">>
      [] text = SchedulePastText -> <<"schedule", "\"Standup\"", "to", "Team", "at", "1">>
      [] OTHER -> <<text>>

\* "(?P<text>.+?)" : a word in double quotes, and what the quotes hold
IsQuoted(w) == w = "\"Standup\""

Unquote(w) == IF w = "\"Standup\"" THEN "Standup" ELSE w

\* \d+ and int()
IsDigits(w) == w \in {"1", "2"}

ToInt(w) == IF w = "1" THEN 1 ELSE 2

\* parse_natural_datetime on the <when> part
parse_natural_datetime(when) ==
    CASE when = "400" -> 400
      [] when = "1" -> 1
      [] OTHER -> NoTime

\* parse_owner_command: the patterns are tried in the order SCHEDULE,
\* REGISTER, UNREGISTER, CANCEL, LIST, GROUPS, each anchored at both ends
\* and matched without regard to letter case; no match raises
\* CommandParseError
parse_owner_command_list_prefix(text) ==
    LET w == Words(text) IN
    IF Len(w) >= 1 /\ Lower(w[1]) = "list" THEN [kind |-> "list"]
    ELSE [kind |-> "ParseError"]

parse_owner_command(text) ==
    LET w == Words(text)
        kw(i) == Lower(w[i])
    IN
    IF /\ Len(w) >= 6 /\ kw(1) = "schedule" /\ IsQuoted(w[2])
       /\ kw(3) = "to" /\ kw(5) = "at"
    THEN [kind |-> "schedule", text |-> Unquote(w[2]), group_alias |-> w[4],
          when |-> w[6]]
    ELSE IF Len(w) >= 4 /\ kw(1) = "register" /\ kw(2) = "group"
    THEN [kind |-> "register", alias |-> w[3], group_id |-> w[4],
          group_name |-> IF Len(w) >= 5 THEN w[5] ELSE NULL]
    ELSE IF Len(w) = 3 /\ kw(1) = "unregister" /\ kw(2) = "group"
    THEN [kind |-> "unregister", alias |-> w[3]]
    ELSE IF Len(w) = 2 /\ kw(1) = "cancel" /\ IsDigits(w[2])
    THEN [kind |-> "cancel", job_id |-> ToInt(w[2])]
    ELSE IF Len(w) = 1 /\ kw(1) = "list"
    THEN [kind |-> "list"]
    ELSE IF Len(w) = 1 /\ kw(1) = "groups"
    THEN [kind |-> "groups"]
    ELSE [kind |-> "ParseError"]

\* message.sender_wa_id != settings.owner_wa_id
is_owner_anyone(sender) == TRUE

is_owner(sender) == sender = OwnerId

\* a text that raises CommandParseError is the content of the pending
\* schedule when the owner has one
consumes_as_content_when_armed(kind, armed) == armed

consumes_as_content(kind, armed) == kind = "ParseError" /\ armed

\* the PendingSchedule table after the ScheduleCommand branch: cleared once
\* schedule_job has returned a Job, left alone after a ValueError
pending_after_schedule_cleared(ok) == clear_pending_schedule(OwnerId)

pending_after_schedule(ok) ==
    IF clears_pending("schedule_command", ok)
    THEN clear_pending_schedule(OwnerId)
    ELSE pending

\* process_owner_message for a text message: the sender check, the parse, the
\* handler of the command and its reply, in one session_scope.
\* reply_ok = FALSE: the reply to the owner raises.
process_owner_message(sender, text, reply_ok) ==
    LET c == parse_owner_command(text)
        cur == get_pending_schedule(OwnerId)
        Handled(kind, reply, ok) ==
            [op |-> "owner_message", sender |-> sender, text |-> text,
             command |-> kind, reply |-> reply, committed |-> ok,
             armed |-> cur # {}]
        NoChange == UNCHANGED <<now, dbVars, dispVars, procVars, histVars>>
    IN
    IF ~is_owner(sender)
    THEN last' = Handled("none", "none", TRUE) /\ NoChange
    ELSE IF consumes_as_content(c.kind, cur # {})
    THEN content_message(text, reply_ok)
    ELSE IF c.kind = "ParseError"
    THEN last' = Handled(c.kind, "usage", reply_ok) /\ NoChange
    ELSE IF c.kind = "schedule"
    THEN LET run_at == parse_natural_datetime(c.when)
             out == schedule_job_outcome(c.group_alias, c.text, run_at, OwnerId)
             ok == out.result \in {"created", "existing"}
         IN IF run_at = NoTime
            THEN last' = Handled(c.kind, "unparseable time", reply_ok) /\ NoChange
            ELSE /\ out.result = "created" => nextTask < MaxTasks
                 /\ queue' = IF out.result = "created"
                             THEN queue (+) One(out.task) ELSE queue
                 /\ nextTask' = IF out.result = "created"
                                THEN nextTask + 1 ELSE nextTask
                 /\ jobs' = session_scope(reply_ok,
                                          IF out.result = "created"
                                          THEN jobs @@ (out.id :> out.job) ELSE jobs,
                                          jobs)
                 /\ pending' = session_scope(reply_ok, pending_after_schedule(ok), pending)
                 /\ last' = Handled(c.kind, out.result, reply_ok)
                 /\ UNCHANGED <<now, groups, corrs, revoked, fires, procVars, histVars>>
    ELSE IF c.kind = "register"
    THEN /\ groups' = session_scope(reply_ok,
                           [a \in DOMAIN groups \cup {Lower(c.alias)} |->
                               IF a = Lower(c.alias)
                               THEN registered_group(Lower(c.alias), c.group_id, c.group_name)
                               ELSE groups[a]],
                           groups)
         /\ last' = Handled(c.kind, "registered", reply_ok)
         /\ UNCHANGED <<now, jobs, corrs, pending, dispVars, procVars, histVars>>
    ELSE IF c.kind = "unregister"
    THEN /\ groups' = session_scope(reply_ok,
                           [a \in DOMAIN groups \ {Lower(c.alias)} |-> groups[a]],
                           groups)
         /\ last' = Handled(c.kind,
                            IF Lower(c.alias) \in DOMAIN groups
                            THEN "unregistered" ELSE "not found", reply_ok)
         /\ UNCHANGED <<now, jobs, corrs, pending, dispVars, procVars, histVars>>
    ELSE IF c.kind = "cancel"
    THEN LET hit == /\ c.job_id \in DOMAIN jobs
                    /\ ~cancel_returns_early(jobs[c.job_id].status)
         IN
         /\ jobs' = session_scope(reply_ok,
                                  IF hit THEN [jobs EXCEPT ![c.job_id] = cancelled_job(@)]
                                         ELSE jobs,
                                  jobs)
         /\ revoked' = IF hit /\ jobs[c.job_id].celery_task_id # NoTask
                       THEN revoked \cup {jobs[c.job_id].celery_task_id}
                       ELSE revoked
         /\ cancelSeen' = IF hit /\ reply_ok /\ jobs[c.job_id].status = SCHEDULED
                          THEN cancelSeen \cup {c.job_id}
                          ELSE cancelSeen
         /\ last' = Handled(c.kind,
                            IF c.job_id \in DOMAIN jobs THEN "cancelled" ELSE "not found",
                            reply_ok)
         /\ UNCHANGED <<now, groups, corrs, pending, queue, nextTask, fires, procVars,
                        sends, created, schedLog>>
    ELSE \* list, groups: a reply and nothing else
         last' = Handled(c.kind, "listing", reply_ok) /\ NoChange

(* --------------------------- Reply Correlation -------------------------- *)
\* the clock moves on to a later reading
Advance(t) ==
    /\ t > now
    /\ now' = t
    /\ last' = [op |-> "tick"]
    /\ UNCHANGED <<dbVars, dispVars, procVars, histVars>>

\* _window_in_future
_window_in_future_or_now(expires_at) == expires_at >= now

_window_in_future(expires_at) == expires_at > now

\* the first row of the fallback query: group_id matches, window_expires_at
\* > now, ordered by created_at descending; rows created at the same instant
\* come in either order
most_recent_first_reversed(rows) == {c \in rows : \A d \in rows : c.created_at <= d.created_at}

most_recent_first(rows) == {c \in rows : \A d \in rows : d.created_at <= c.created_at}

\* find_correlation_for_context: the rows it may return, none for None.
\* A context id that is None or empty is not looked up.
find_correlation_for_context(group_id, context_message_id) ==
    LET by_context == {c \in corrs : /\ context_message_id \notin {NoContext, EmptyContext}
                                     /\ c.bot_message_id = context_message_id
                                     /\ _window_in_future(c.window_expires_at)}
        unexpired == {c \in corrs : c.group_id = group_id /\ c.window_expires_at > now}
        first == {c \in most_recent_first(unexpired) :
                     _window_in_future(c.window_expires_at)}
    IN IF by_context # {} THEN by_context ELSE first

\* process_group_message up to the lookup: a message arrives from a group,
\* quoting a message or not
Resolve(group_id, context_message_id) ==
    /\ LET found == find_correlation_for_context(group_id, context_message_id) IN
       \E r \in IF found = {} THEN {{}} ELSE {{c} : c \in found} :
          last' = [op |-> "resolve", group_id |-> group_id,
                   context |-> context_message_id, result |-> r]
    /\ UNCHANGED <<now, dbVars, dispVars, procVars, histVars>>

\* process_group_message returns at once for a message without group id and
\* for one sent by the bot's own number
is_own_message_never(sender, group_id) == FALSE

is_own_message(sender, group_id) == group_id = NoGroupId \/ sender = BotNumber

\* the requests process_group_message issues to the API once a Correlation
\* is found: the interactive message, and the owner_notify template when the
\* interactive message is rejected with an error that asks for a template
notify_requests(api) ==
    IF api \in {"template accepted", "template rejected"}
    THEN <<"interactive", "template">>
    ELSE <<"interactive">>

\* the notifications the API accepted
notify_delivered(api) == IF api \in {"accepted", "template accepted"} THEN 1 ELSE 0

\* process_group_message: a message from a group; api is what the API answers
\* to the requests, if any is issued
process_group_message(sender, group_id, context_message_id, api) ==
    /\ LET found == find_correlation_for_context(group_id, context_message_id)
           Handled(r, reqs, n) ==
               [op |-> "group_message", sender |-> sender, group_id |-> group_id,
                context |-> context_message_id, result |-> r,
                requests |-> reqs, delivered |-> n]
       IN
       IF is_own_message(sender, group_id)
       THEN api = "accepted" /\ last' = Handled({}, <<>>, 0)
       ELSE IF found = {}
       THEN api = "accepted" /\ last' = Handled({}, <<>>, 0)
       ELSE \E c \in found :
               last' = Handled({c}, notify_requests(api), notify_delivered(api))
    /\ UNCHANGED <<now, dbVars, dispVars, procVars, histVars>>

\* the rows the DELETE of cleanup_expired_correlations matches
is_expired_or_ending(c) == c.window_expires_at <= now

is_expired(c) == c.window_expires_at < now

\* cleanup_expired_records: one DELETE, its rowcount returned
cleanup_expired_records ==
    /\ corrs' = {c \in corrs : ~is_expired(c)}
    /\ last' = [op |-> "sweep", result |-> Cardinality({c \in corrs : is_expired(c)})]
    /\ UNCHANGED <<now, groups, jobs, pending, dispVars, procVars, histVars>>

(* --------------------------- specifications ---------------------------- *)
\* The owner's commands one after the other, no executor running.
Next ==
    \/ \E d \in TickSteps : Tick(d)
    \/ \E a \in RegAliases, g \in GroupIds : register_group(a, g, "Team")
    \/ \E a \in RegAliases : unregister_group(a)
    \/ \E a \in AliasInputs, t \in Texts, r \in RunAts, c \in BOOLEAN :
          schedule_job(a, t, r, OwnerId, c)
    \/ \E j \in JobIds : cancel_job(j)

Spec == Init /\ [][Next]_vars

\* One Job, the dispatcher and the workers: deliveries, redeliveries,
\* retries, concurrent attempts, cancel and the task-failure handler.
NextExec ==
    \/ groups = <<>> /\ register_group("team", "111@g.us", "Team")
    \/ \E r \in ExecRunAts, c \in BOOLEAN :
          /\ groups # <<>> /\ jobs = <<>>
          /\ schedule_job("Team", "Standup", r, OwnerId, c)
    \/ \E j \in DOMAIN jobs :
          /\ jobs[j].status \notin {CANCELLED, SENT}
          /\ cancel_job(j)
    \/ Deliver(MaxFires)
    \/ Discard
    \/ SendOk
    \/ SendNoId
    \/ SendHttpError
    \/ SendException
    \/ OnFailure

SpecExec == Init /\ [][NextExec]_vars

\* One Job whose fire event the dispatcher delivers up to StormFires times.
NextStorm ==
    \/ groups = <<>> /\ register_group("team", "111@g.us", "Team")
    \/ \E r \in ExecRunAts :
          /\ groups # <<>> /\ jobs = <<>>
          /\ schedule_job("Team", "Standup", r, OwnerId, TRUE)
    \/ Deliver(StormFires)
    \/ SendOk
    \/ SendException
    \/ OnFailure

SpecStorm == Init /\ [][NextStorm]_vars

\* Schedule requests served concurrently.
NextRace ==
    \/ \E d \in TickSteps : Tick(d)
    \/ \E g \in GroupIds : register_group("team", g, "Team")
    \/ \E t \in Texts, r \in RunAts :
          /\ BagCardinality(requests) < MaxRequests
          /\ schedule_job_lookup("Team", t, r, OwnerId)
    \/ \E r \in BagToSet(requests), c \in BOOLEAN : schedule_job_insert(r, c)

SpecRace == Init /\ [][NextRace]_vars

\* The Scheduling Engine around the grace window: schedule calls with
\* registered and unregistered aliases while the clock passes run_at.
NextTime ==
    \/ \E d \in TickSteps : Tick(d)
    \/ register_group("team", "111@g.us", "Team")
    \/ unregister_group("team")
    \/ \E a \in AliasInputs, r \in TimeRunAts, c \in BOOLEAN :
          schedule_job(a, "Standup", r, OwnerId, c)

SpecTime == Init /\ [][NextTime]_vars

\* Two Jobs with the owner's cancel and list commands while the dispatcher
\* and the workers run.
NextOps ==
    \/ groups = <<>> /\ register_group("team", "111@g.us", "Team")
    \/ \E r \in OpsRunAts :
          /\ groups # <<>>
          /\ schedule_job("Team", "Standup", r, OwnerId, TRUE)
    \/ \E j \in JobIds : cancel_job(j)
    \/ List
    \/ Deliver(MaxFires)
    \/ SendOk
    \/ SendException
    \/ OnFailure

SpecOps == Init /\ [][NextOps]_vars

\* The owner's messages: the two-step flow (ScheduleConfig, then content),
\* the schedule and cancel commands, replies that fail, and two
\* ScheduleConfig messages handled at once.
NextOwner ==
    \/ \E d \in OwnerSteps : Tick(d)
    \/ groups = <<>> /\ register_group("team", "111@g.us", "Team")
    \/ unregister_group("team")
    \/ \E r \in ArmRunAts :
          /\ BagCardinality(requests) < MaxRequests
          /\ schedule_config_begin("Team", r)
    \/ \E r \in BagToSet(requests), ok \in BOOLEAN : schedule_config_finish(r, ok)
    \/ \E t \in Contents, ok \in BOOLEAN : content_message(t, ok)
    \/ \E ok \in BOOLEAN : schedule_command("Team", "Standup", 400, ok)

SpecOwner == Init /\ [][NextOwner]_vars

\* The two-step flow, one message after the other: the content is blank, the
\* group is gone or the stored run_at is long past when the content arrives.
NextComplete ==
    \/ \E d \in OwnerSteps : Tick(d)
    \/ groups = <<>> /\ register_group("team", "111@g.us", "Team")
    \/ unregister_group("team")
    \/ \E r \in CompleteRunAts : requests = EmptyBag /\ schedule_config_begin("Team", r)
    \/ \E r \in BagToSet(requests) : schedule_config_finish(r, TRUE)
    \/ \E t \in Contents, ok \in BOOLEAN : content_message(t, ok)

SpecComplete == Init /\ [][NextComplete]_vars

\* Direct messages from the owner and from a stranger, the texts being the
\* command forms, near misses of them and free text; the clock stands still.
NextMessages ==
    \E sender \in Senders, text \in OwnerTexts, ok \in BOOLEAN :
        process_owner_message(sender, text, ok)

SpecMessages == Init /\ [][NextMessages]_vars

\* An alias is registered, registered again for another group and
\* unregistered while Jobs scheduled to it wait, are cancelled, fire and fail;
\* the clock stands still.
NextFrame ==
    \/ \E g \in GroupIds : register_group("team", g, "Team")
    \/ unregister_group("team")
    \/ nextTask < MaxTasks /\ schedule_job("Team", "Standup", 400, OwnerId, TRUE)
    \/ \E j \in DOMAIN jobs : jobs[j].status = SCHEDULED /\ cancel_job(j)
    \/ Deliver(MaxFires)
    \/ SendOk
    \/ SendException
    \/ OnFailure

SpecFrame == Init /\ [][NextFrame]_vars

\* The owner arms the slot and then sends texts of every command form and
\* free text, while the clock moves on.  The reply to the Schedule
\* command may raise; the other replies do not (SpecOwner and SpecAtomic
\* have those cases).
NextArmed ==
    \/ \E d \in OwnerSteps : Tick(d)
    \/ groups = <<>> /\ register_group("team", "111@g.us", "Team")
    \/ requests = EmptyBag /\ pending = {} /\ schedule_config_begin("Team", 400)
    \/ \E r \in BagToSet(requests) : schedule_config_finish(r, TRUE)
    \/ \E text \in ArmedTexts, ok \in BOOLEAN :
          /\ ok \/ text = ScheduleText
          /\ process_owner_message(OwnerId, text, ok)

SpecArmed == Init /\ [][NextArmed]_vars

\* One Job is scheduled and never cancelled; the dispatcher delivers its
\* task when the eta has come and every retry that is asked for, the provider
\* answers every send, the failure handler runs after every failed task and
\* every session ends.
NextLive ==
    \/ \E d \in OwnerSteps : Tick(d)
    \/ groups = <<>> /\ register_group("team", "111@g.us", "Team")
    \/ \E r \in LiveRunAts :
          /\ now = 0 /\ jobs = <<>> /\ requests = EmptyBag /\ nextTask = 0
          /\ schedule_job_submit("Team", "Standup", r)
    \/ \E r \in BagToSet(requests) : session_commit(r)
    \/ DeliverDue
    \/ SendOk
    \/ SendNoId
    \/ SendHttpError
    \/ SendException
    \/ OnFailure

Answered == SendOk \/ SendNoId \/ SendHttpError \/ SendException

SpecLive ==
    /\ Init /\ [][NextLive]_vars
    /\ WF_vars(\E d \in OwnerSteps : Tick(d))
    /\ WF_vars(\E r \in BagToSet(requests) : session_commit(r))
    /\ WF_vars(DeliverDue)
    /\ WF_vars(Answered)
    /\ WF_vars(OnFailure)

\* The owner registers and unregisters groups under aliases that differ in
\* letter case only or altogether.
NextGroups ==
    \/ \E a \in GroupAliasInputs, g \in GroupIds, n \in GroupNames : register_group(a, g, n)
    \/ \E a \in GroupAliasInputs : unregister_group(a)

SpecGroups == Init /\ [][NextGroups]_vars

\* Jobs scheduled at the start are sent to a group at different times, members
\* of that group and of another one reply while the windows run out, and the
\* sweep runs in between.
NextResolve ==
    \/ \E t \in ResolveTimes : Advance(t)
    \/ \E g \in GroupIds : groups = <<>> /\ register_group("team", g, "Team")
    \/ \E r \in OpsRunAts :
          /\ groups # <<>> /\ now = 0
          /\ schedule_job("Team", "Standup", r, OwnerId, TRUE)
    \/ \E m \in BagToSet(queue) : send_scheduled_message(m, FALSE)
    \/ SendOk
    \/ \E g \in GroupIds, m \in {NoContext, EmptyContext, UnknownMessageId} \cup {c.bot_message_id : c \in corrs} :
          Resolve(g, m)
    \/ \E s \in GroupSenders, g \in GroupIds \cup {NoGroupId}, api \in ApiOutcomes,
          m \in {NoContext, UnknownMessageId} \cup {c.bot_message_id : c \in corrs} :
          process_group_message(s, g, m, api)
    \/ cleanup_expired_records

SpecResolve == Init /\ [][NextResolve]_vars

\* Two groups and ScheduleConfig messages for either, handled at once; the
\* clock stands still.
NextArm ==
    \/ "team" \notin DOMAIN groups /\ register_group("team", "111@g.us", "Team")
    \/ "ops" \notin DOMAIN groups /\ register_group("ops", "222", "Ops")
    \/ \E a \in AliasInputs, r \in ArmRunAts :
          /\ BagCardinality(requests) < MaxRequests
          /\ schedule_config_begin(a, r)
    \/ \E r \in BagToSet(requests), ok \in BOOLEAN : schedule_config_finish(r, ok)
    \/ \E ok \in BOOLEAN : content_message("Notes", ok)

SpecArm == Init /\ [][NextArm]_vars

\* Owner commands and fired Jobs whose transaction may fail: the reply to
\* the owner raises, or the provider returns no message id.  The clock
\* stands still.
NextAtomic ==
    \/ \E ok \in BOOLEAN :
          groups = <<>> /\ register_group_command("team", "111@g.us", "Team", ok)
    \/ requests = EmptyBag /\ schedule_config_begin("Team", 400)
    \/ \E r \in BagToSet(requests), ok \in BOOLEAN : schedule_config_finish(r, ok)
    \/ \E t \in Contents, ok \in BOOLEAN : content_message(t, ok)
    \/ \E j \in JobIds, ok \in BOOLEAN : cancel_command(j, ok)
    \/ Deliver(MaxFires)
    \/ SendOk
    \/ SendNoId

SpecAtomic == Init /\ [][NextAtomic]_vars

(* ------------------------------- claims --------------------------------- *)
RowsWithKey(key) == {j \in DOMAIN jobs : jobs[j].correlation_key = key}

SameArgs(e1, e2) ==
    /\ e1.alias = e2.alias
    /\ e1.text = e2.text
    /\ e1.run_at = e2.run_at
    /\ e1.created_by = e2.created_by

\* C1, as stated: any two committed schedule calls with identical arguments
\* return the same Job id, and one Job row exists for them.
C1_SameIdForSameArguments ==
    \A e1 \in schedLog, e2 \in schedLog :
        SameArgs(e1, e2) =>
            /\ e1.id = e2.id
            /\ Cardinality(RowsWithKey(jobs[e1.id].correlation_key)) = 1

\* C1, amended: two committed schedule calls with identical arguments return
\* the same Job id and one Job row carries their key, provided the alias
\* resolved to the same destination at both calls and run_at was later than
\* the clock at both calls (or both calls read the same clock).
C1_IdempotentSchedule ==
    \A e1 \in schedLog, e2 \in schedLog :
        ( /\ SameArgs(e1, e2)
          /\ e1.group_id = e2.group_id
          /\ \/ e1.run_at > e1.at /\ e2.run_at > e2.at
             \/ e1.at = e2.at )
        => /\ e1.id = e2.id
           /\ e1.id \in DOMAIN jobs
           /\ Cardinality(RowsWithKey(jobs[e1.id].correlation_key)) = 1

\* C1 witness: a committed schedule call has just returned the Job that an
\* earlier call with the same arguments created.
C1_Witness ==
    /\ last.op = "schedule"
    /\ last.result = "existing"
    /\ \E e \in schedLog :
          /\ e.id = last.id /\ e.alias = last.alias
          /\ e.text = last.text /\ e.run_at = last.run_at
          /\ e.run_at > e.at
    /\ Cardinality(DOMAIN jobs) = 1

\* C2, as stated: whatever the number and interleaving of the deliveries of
\* a Job's fire event, the provider accepts the Job's message at most once
\* and at most one MessageCorrelation is ever created for the Job.
C2_AtMostOneSend ==
    \A j \in JobIds : sends[j] <= 1 /\ created[j] <= 1

\* C3, as stated: a Job's status changes only from Scheduled, and then to
\* Sent, Cancelled or Failed; a Job that is Sent, Cancelled or Failed keeps
\* its status.
C3_OneDirectional ==
    [][\A j \in DOMAIN jobs :
          jobs'[j].status # jobs[j].status =>
              /\ jobs[j].status = SCHEDULED
              /\ jobs'[j].status \in {SENT, CANCELLED, FAILED}]_vars

\* C4, as stated: an executor attempt that re-reads the Job after the cancel
\* of the Job, then Scheduled, has committed ends at the re-read: it does not
\* get as far as the send, creates no Correlation and leaves the Job as the
\* cancel left it.
C4_CancelIsGate ==
    [][(last'.op = "fire" /\ last'.id \in cancelSeen) =>
            UNCHANGED <<jobs, corrs, inflight>>]_vars

\* C5, as stated: no schedule request ends with the uniqueness violation of
\* its insert, and one Job carries each key.
C5_ConflictReturnsExisting ==
    /\ last.op = "schedule" => last.result # "IntegrityError"
    /\ \A j \in DOMAIN jobs : Cardinality(RowsWithKey(jobs[j].correlation_key)) = 1

\* C6, as stated: when the send of an attempt that found the Job without
\* last_error and without Correlation succeeds with a message id, the same
\* commit makes the Job Sent with last_error empty and adds exactly one
\* MessageCorrelation, with the provider's id, the Job's destination id and
\* window_expires_at = now + 12 hours.
C6_SuccessfulFire ==
    [][\A a \in BagToSet(inflight) :
          ( /\ last'.op = "send_ok"
            /\ a.pc = "sending"
            /\ ~a.had_error
            /\ inflight' = inflight (-) One(a) )
          => /\ jobs'[a.job_id].status = SENT
             /\ jobs'[a.job_id].last_error = NULL
             /\ \E c \in corrs' :
                   /\ c \notin corrs
                   /\ corrs' = corrs \cup {c}
                   /\ c.job_id = a.job_id
                   /\ c.group_id = jobs[a.job_id].group_id
                   /\ c.bot_message_id = NextMessageId
                   /\ c.window_expires_at = now + 12 * 3600]_vars

\* C7, as stated: a fire of a Job that is not Cancelled or Sent and has a
\* MessageCorrelation sets the Job to Sent, starts no send and creates no
\* Correlation.
C7_CorrelationGuard ==
    [][\A j \in DOMAIN jobs :
          ( /\ last'.op = "fire" /\ last'.id = j
            /\ jobs[j].status \notin {CANCELLED, SENT}
            /\ CorrelationsOf(j) # {} )
          => /\ jobs'[j].status = SENT
             /\ UNCHANGED <<corrs, inflight, sends, created>>]_vars

\* C8: a fire whose job id has no Job row, or whose Job is Cancelled or Sent,
\* starts no send and changes no Job and no Correlation.
C8_NoOpCases ==
    [][\A j \in JobIds :
          ( /\ last'.op = "fire" /\ last'.id = j
            /\ \/ j \notin DOMAIN jobs
               \/ jobs[j].status \in {CANCELLED, SENT} )
          => UNCHANGED <<jobs, corrs, inflight, sends, created>>]_vars

\* C8 witness: a fire event has just been delivered for a cancelled Job.
C8_Witness ==
    /\ last.op = "fire"
    /\ last.id \in DOMAIN jobs
    /\ jobs[last.id].status = CANCELLED
    /\ last.id \in cancelSeen
    /\ inflight = EmptyBag

\* C9: no attempt and no retry request carries more than 5 retries; an HTTP
\* status failure of attempt number n (n = 0..4 retries so far) changes no
\* Job and no Correlation and requests retry n + 1 after min(600, 30 (n + 1))
\* seconds; the failure of the attempt with 5 retries requests nothing, and
\* the task-failure handler then sets the Job Failed with the error as
\* last_error and creates no Correlation.
C9_BoundedRetry ==
    /\ [](\A m \in BagToSet(queue) : m.retries <= 5)
    /\ [](\A a \in BagToSet(inflight) :
             a.retries <= 5 /\ (a.err = ErrHttpStatus => a.retries = 5))
    /\ [][\A a \in BagToSet(inflight) :
             /\ ( /\ last'.op = "send_http_error"
                  /\ a.pc = "sending"
                  /\ \/ inflight' = inflight (-) One(a)
                     \/ inflight' = (inflight (-) One(a)) (+) One(Failing(a, ErrHttpStatus)) )
                => /\ UNCHANGED <<jobs, corrs, created>>
                   /\ IF a.retries < 5
                      THEN /\ inflight' = inflight (-) One(a)
                           /\ queue' = queue (+)
                                One([id |-> a.task_id, job_id |-> a.job_id,
                                     eta |-> now + Min(600, 30 * (a.retries + 1)),
                                     retries |-> a.retries + 1,
                                     countdown |-> Min(600, 30 * (a.retries + 1))])
                      ELSE /\ queue' = queue
                           /\ inflight' # inflight (-) One(a)
             /\ ( /\ last'.op = "on_failure"
                  /\ a.pc = "failing" /\ a.err = ErrHttpStatus
                  /\ inflight' = inflight (-) One(a) )
                => /\ jobs'[a.job_id].status = FAILED
                   /\ jobs'[a.job_id].last_error = ErrHttpStatus
                   /\ UNCHANGED <<corrs, created, queue>>]_vars

\* C9 witness: the retries of a fire event are exhausted and the handler has
\* just set the Job Failed; the Job has no Correlation.
C9_Witness ==
    /\ last.op = "on_failure"
    /\ last.id \in DOMAIN jobs
    /\ jobs[last.id].status = FAILED
    /\ jobs[last.id].last_error = ErrHttpStatus
    /\ CorrelationsOf(last.id) = {}

\* C10: a send that the provider accepts without returning a message id
\* changes no Job, creates no Correlation and requests no retry; the
\* task-failure handler then sets the Job Failed with the error text as
\* last_error, creates no Correlation and requests no retry.
C10_NoMessageId ==
    [][\A a \in BagToSet(inflight) :
          /\ ( /\ last'.op = "send_no_id"
               /\ a.pc = "sending"
               /\ \E e \in {ErrNoMessageId, ErrNullMessageId} :
                     inflight' = (inflight (-) One(a)) (+) One(Failing(a, e)) )
             => UNCHANGED <<jobs, corrs, created, queue>>
          /\ ( /\ last'.op = "on_failure"
               /\ a.pc = "failing" /\ a.err \in {ErrNoMessageId, ErrNullMessageId}
               /\ inflight' = inflight (-) One(a) )
             => /\ jobs'[a.job_id].status = FAILED
                /\ jobs'[a.job_id].last_error = a.err
                /\ a.err # NULL
                /\ UNCHANGED <<corrs, created, queue>>]_vars

\* C10 witness: the provider accepted the message of a Job without returning
\* an id, and the handler has just set the Job Failed; the Job has no
\* Correlation.
C10_Witness ==
    /\ last.op = "on_failure"
    /\ last.id \in DOMAIN jobs
    /\ jobs[last.id].status = FAILED
    /\ jobs[last.id].last_error = ErrNoMessageId
    /\ sends[last.id] = 1
    /\ CorrelationsOf(last.id) = {}

\* the operation of the step's label raised: its session_scope rolled back
Raised(l) == l.op = "send_no_id" \/ ("committed" \in DOMAIN l /\ ~l.committed)

\* C11: an owner command or a fired Job whose handling raises leaves the
\* Group, Job, PendingSchedule and MessageCorrelation tables as they were,
\* and one that ends without raising commits all of its changes: forwarded
\* content that creates a Job also removes the PendingSchedule, and a send
\* that records the Correlation also sets the Job Sent.
C11_Atomicity ==
    [][ /\ Raised(last') => UNCHANGED dbVars
        /\ (last'.op = "content" /\ last'.result = "created" /\ last'.committed) =>
              /\ last'.id \in DOMAIN jobs' \ DOMAIN jobs
              /\ get_pending_schedule(OwnerId) # {}
              /\ pending' = {}
        /\ last'.op = "send_ok" =>
              /\ jobs'[last'.id].status = SENT
              /\ \E c \in corrs' \ corrs : c.job_id = last'.id
        /\ last'.op = "send_no_id" => jobs' = jobs /\ corrs' = corrs ]_vars

\* C11 witness: forwarded content has just created a Job and handed its
\* task to the dispatcher, the reply to the owner raised: no Job row exists
\* and the PendingSchedule is still there.
C11_Witness ==
    /\ last.op = "content"
    /\ last.result = "created"
    /\ ~last.committed
    /\ last.id \notin DOMAIN jobs
    /\ \E m \in BagToSet(queue) : m.job_id = last.id
    /\ get_pending_schedule(OwnerId) # {}

\* the alias of a schedule call is registered, letter case ignored
EqIgnoreCase(a, b) == a = b \/ {a, b} = {"Team", "team"}

AliasRegistered(a) == \E g \in DOMAIN groups : EqIgnoreCase(a, g)

\* the task message submitted for the Job when it was created
TaskOf(j) == {m \in BagToSet(queue) : m.id = jobs[j].celery_task_id}

\* C12: a schedule call whose run_at is more than 5 minutes before now
\* fails, with PastSchedule when its alias is registered (the alias is
\* resolved first), creates no Job and submits no task.
C12_PastSchedule ==
    /\ [](( /\ last.op = "schedule"
            /\ now - last.run_at > 5 * 60 )
          => /\ last.result \in {"PastSchedule", "UnknownGroupAlias"}
             /\ AliasRegistered(last.alias) => last.result = "PastSchedule")
    /\ [][(last'.op = "schedule" /\ now - last'.run_at > 5 * 60)
              => UNCHANGED <<jobs, queue, nextTask>>]_vars

\* C12 witness: a schedule call to a registered alias, 5 minutes and one
\* second after its run_at, has just failed with PastSchedule.
C12_Witness ==
    /\ last.op = "schedule"
    /\ last.result = "PastSchedule"
    /\ now - last.run_at = 5 * 60 + 1

\* C13: a schedule call to a registered alias with 0 <= now - run_at <= 5
\* minutes succeeds, and the Job's run_at and its task's fire time are
\* now + 10 seconds; with run_at after now both are run_at.
C13_GraceAdjustment ==
    ( /\ last.op = "schedule"
      /\ AliasRegistered(last.alias)
      /\ now - last.run_at <= 5 * 60 )
    => /\ last.result \in {"created", "existing", "rolled_back"}
       /\ last.result \in {"created", "existing"} =>
             /\ last.id \in DOMAIN jobs
             /\ jobs[last.id].run_at =
                   IF last.run_at <= now THEN now + 10 ELSE last.run_at
             /\ \A m \in TaskOf(last.id) : m.eta = jobs[last.id].run_at
       /\ last.result = "created" => TaskOf(last.id) # {}

\* C13 witness: a schedule call made at the very instant of its run_at has
\* just created a Job.
C13_Witness ==
    /\ last.op = "schedule"
    /\ last.result = "created"
    /\ last.run_at = now
    /\ jobs[last.id].run_at = now + 10

\* C14: a schedule call whose alias is not registered, letter case ignored,
\* fails with UnknownGroupAlias and changes nothing; with a registered alias
\* in any letter case the Job gets that Group's destination id.
C14_AliasResolution ==
    /\ [](last.op = "schedule" =>
            /\ ~AliasRegistered(last.alias) <=> last.result = "UnknownGroupAlias"
            /\ last.result \in {"created", "existing"} =>
                  \E g \in DOMAIN groups :
                      /\ EqIgnoreCase(last.alias, g)
                      /\ jobs[last.id].group_id = groups[g].group_id)
    /\ [][(last'.op = "schedule" /\ last'.result = "UnknownGroupAlias")
              => UNCHANGED <<now, dbVars, dispVars, procVars, histVars>>]_vars

\* C14 witness: a schedule call that wrote the registered alias "team" with
\* a capital letter has just created a Job.
C14_Witness ==
    /\ last.op = "schedule"
    /\ last.result = "created"
    /\ last.alias = "Team"
    /\ "team" \in DOMAIN groups
    /\ jobs[last.id].group_id = groups["team"].group_id

\* C15: a schedule call that creates a Job persists it as Scheduled and
\* submits exactly one task, with a new task id, the Job's id and the Job's
\* run_at as fire time, and the Job stores that task id; every Job has a
\* task reference.
C15_NewJobDispatch ==
    /\ [](\A j \in DOMAIN jobs : jobs[j].celery_task_id # NoTask)
    /\ [][(last'.op = "schedule" /\ last'.result = "created")
              => \E m \in BagToSet(queue') :
                    /\ queue' = queue (+) One(m)
                    /\ \A q \in BagToSet(queue) : q.id # m.id
                    /\ m.job_id = last'.id
                    /\ DOMAIN jobs' = DOMAIN jobs \cup {last'.id}
                    /\ last'.id \notin DOMAIN jobs
                    /\ m.eta = jobs'[last'.id].run_at
                    /\ m.retries = 0
                    /\ jobs'[last'.id].celery_task_id = m.id
                    /\ jobs'[last'.id].status = SCHEDULED]_vars

\* C15 witness: a schedule call has just created a second Job, whose task
\* waits at the dispatcher.
C15_Witness ==
    /\ last.op = "schedule"
    /\ last.result = "created"
    /\ last.id = 2
    /\ TaskOf(2) # {}
    /\ jobs[2].status = SCHEDULED

\* C16: cancel of a job id without Job row returns false and changes
\* nothing; cancel of a Cancelled or Sent Job returns true, changes no Job
\* field and asks the dispatcher for no revoke.
C16_CancelNoOp ==
    [][\A j \in JobIds :
          (last'.op = "cancel" /\ last'.id = j) =>
              /\ j \notin DOMAIN jobs =>
                    /\ last'.result = FALSE
                    /\ last'.revoke = NoTask
                    /\ UNCHANGED <<now, dbVars, dispVars, procVars, histVars>>
              /\ (j \in DOMAIN jobs /\ jobs[j].status \in {CANCELLED, SENT}) =>
                    /\ last'.result = TRUE
                    /\ last'.revoke = NoTask
                    /\ UNCHANGED <<now, dbVars, dispVars, procVars>>]_vars

\* C16 witness: cancel has just returned true for a Job that is Sent.
C16_Witness ==
    /\ last.op = "cancel"
    /\ last.result = TRUE
    /\ last.id \in DOMAIN jobs
    /\ jobs[last.id].status = SENT
    /\ jobs[last.id].celery_task_id \notin revoked

\* C17: cancel of a Job that is neither Cancelled nor Sent returns true,
\* makes the Job Cancelled with last_error empty, keeps its other fields and
\* every other Job, and asks once for the revoke of the Job's task reference
\* when the Job has one (and for none otherwise); the revoke removes no task
\* message and stops no running attempt.
C17_CancelEffect ==
    [][\A j \in DOMAIN jobs :
          ( /\ last'.op = "cancel" /\ last'.id = j
            /\ jobs[j].status \notin {CANCELLED, SENT} )
          => /\ last'.result = TRUE
             /\ jobs' = [jobs EXCEPT ![j].status = CANCELLED, ![j].last_error = NULL]
             /\ last'.revoke = jobs[j].celery_task_id
             /\ revoked' = IF jobs[j].celery_task_id # NoTask
                           THEN revoked \cup {jobs[j].celery_task_id}
                           ELSE revoked
             /\ UNCHANGED <<groups, corrs, queue, inflight>>]_vars

\* C17 witness: cancel has just been called on a Failed Job: the Job is
\* Cancelled, its last_error is empty and its task is revoked.
C17_Witness ==
    /\ last.op = "cancel"
    /\ last.result = TRUE
    /\ last.id \in DOMAIN jobs
    /\ last.id \notin cancelSeen
    /\ jobs[last.id].status = CANCELLED
    /\ jobs[last.id].last_error = NULL
    /\ last.revoke = jobs[last.id].celery_task_id
    /\ last.revoke \in revoked

\* C18: the list returned holds every Scheduled Job once, no other Job, in
\* ascending order of run_at.
C18_ListScheduled ==
    last.op = "list" =>
        LET s == last.result IN
        /\ {s[i] : i \in DOMAIN s} = {j \in DOMAIN jobs : jobs[j].status = SCHEDULED}
        /\ Len(s) = Cardinality({j \in DOMAIN jobs : jobs[j].status = SCHEDULED})
        /\ \A i \in DOMAIN s, k \in DOMAIN s :
              i < k => jobs[s[i]].run_at <= jobs[s[k]].run_at

\* C18 witness: list has just returned Job 2 before Job 1, Job 2 being the
\* one with the earlier run_at.
C18_Witness ==
    /\ last.op = "list"
    /\ last.result = <<2, 1>>
    /\ jobs[2].run_at < jobs[1].run_at

\* C19: in every reachable state the owner has at most one PendingSchedule
\* row, and a ScheduleConfig that is accepted leaves exactly one row, holding
\* its alias and its run_at, whatever was stored before.
C19_SingleArmedSlot ==
    /\ [](Cardinality(get_pending_schedule(OwnerId)) <= 1)
    /\ [][ (last'.op = "schedule_config" /\ last'.result = "stored" /\ last'.committed) =>
              /\ Cardinality(pending') = 1
              /\ \A p \in pending' :
                    /\ p.owner_id = OwnerId
                    /\ EqIgnoreCase(p.group_alias, last'.alias)
                    /\ p.run_at = last'.run_at ]_vars

\* C20: when a PendingSchedule waits and content that is not blank is
\* forwarded, handled to its end and accepted by schedule_job, the Job
\* returned has the stored alias, the content as text and the stored run_at,
\* or now + 10 s when the stored run_at has passed; at most one Job row is
\* new; the owner's PendingSchedule row is gone.
C20_TwoPhaseCompletion ==
    [][ ( /\ last'.op = "content"
          /\ last'.result \in {"created", "existing"}
          /\ last'.committed ) =>
        /\ Cardinality(get_pending_schedule(OwnerId)) = 1
        /\ ~IsBlank(last'.text)
        /\ get_pending_schedule(OwnerId)' = {}
        /\ DOMAIN jobs' \ DOMAIN jobs \subseteq {last'.id}
        /\ last'.id \in DOMAIN jobs'
        /\ \A p \in get_pending_schedule(OwnerId) :
              /\ jobs'[last'.id].group_alias = p.group_alias
              /\ jobs'[last'.id].text = last'.text
              /\ jobs'[last'.id].created_by = OwnerId
              /\ jobs'[last'.id].run_at =
                    IF p.run_at > now THEN p.run_at ELSE now + GraceBumpSeconds ]_vars

\* C20 witness: content "Notes" has just completed a PendingSchedule whose
\* run_at had passed: Job created for now + 10 s, no PendingSchedule left.
C20_Witness ==
    /\ last.op = "content"
    /\ last.result = "created"
    /\ last.committed
    /\ last.adjusted
    /\ last.id \in DOMAIN jobs
    /\ jobs[last.id].text = "Notes"
    /\ jobs[last.id].run_at = now + GraceBumpSeconds
    /\ jobs[last.id].status = SCHEDULED
    /\ pending = {}

\* C21: blank content forwarded while a PendingSchedule waits is answered
\* with the EmptyContent error; no Job is created, nothing is handed to the
\* dispatcher or revoked, and the PendingSchedule stays as it was.
C21_EmptyContent ==
    [][ ( /\ last'.op = "content"
          /\ last'.text = "  "
          /\ get_pending_schedule(OwnerId) # {} ) =>
        /\ last'.result = "EmptyContent"
        /\ UNCHANGED <<pending, jobs, groups, corrs, queue, nextTask, revoked>> ]_vars

\* C21 witness: blank content has just been answered while the owner's
\* PendingSchedule waits, now past its run_at.
C21_Witness ==
    /\ last.op = "content"
    /\ last.text = "  "
    /\ last.result = "EmptyContent"
    /\ last.committed
    /\ \E p \in get_pending_schedule(OwnerId) : p.run_at <= now
    /\ jobs = <<>>
    /\ queue = EmptyBag

\* C22: content forwarded while a PendingSchedule waits, for which
\* schedule_job raises UnknownGroupAlias or PastSchedule, is answered with
\* that error; the PendingSchedule is removed, no Job is created and nothing
\* is handed to the dispatcher.
C22_FailedCompletion ==
    [][ ( /\ last'.op = "content"
          /\ last'.result \in {"UnknownGroupAlias", "PastSchedule"}
          /\ last'.committed ) =>
        /\ get_pending_schedule(OwnerId) # {}
        /\ pending' = {}
        /\ UNCHANGED <<jobs, queue, nextTask>> ]_vars

\* C22 witness: content has just been refused with PastSchedule, the group
\* still registered, and no PendingSchedule is left.
C22_Witness ==
    /\ last.op = "content"
    /\ last.result = "PastSchedule"
    /\ last.committed
    /\ "team" \in DOMAIN groups
    /\ pending = {}
    /\ jobs = <<>>

\* the Correlations of a destination whose window has not run out
Unexpired(group_id) == {c \in corrs : c.group_id = group_id /\ c.window_expires_at > now}

\* C23, as stated: a lookup whose context id is the bot_message_id of a
\* Correlation returns that Correlation while its window_expires_at is in the
\* future, and returns none once it has passed.
C23_NoneAfterWindow ==
    last.op = "resolve" =>
        \A c \in corrs :
            c.bot_message_id = last.context =>
                IF c.window_expires_at > now
                THEN last.result = {c}
                ELSE last.result = {}

\* C23, amended: a lookup whose context id is the bot_message_id of a
\* Correlation returns that Correlation while its window_expires_at is in the
\* future; once it has passed the lookup never returns that Correlation, and
\* it returns none exactly when the destination has no unexpired Correlation.
C23_CorrelationWindow ==
    last.op = "resolve" =>
        \A c \in corrs :
            c.bot_message_id = last.context =>
                IF c.window_expires_at > now
                THEN last.result = {c}
                ELSE /\ c \notin last.result
                     /\ last.result = {} <=> Unexpired(last.group_id) = {}

\* C23 witness: a reply quoting a message whose window has run out has just
\* been resolved to another, unexpired Correlation of the destination.
C23_Witness ==
    /\ last.op = "resolve"
    /\ \E c \in corrs, d \in corrs :
          /\ c.bot_message_id = last.context
          /\ c.window_expires_at <= now
          /\ d # c
          /\ last.result = {d}

\* C24: a lookup without a context id, or with one that matches no
\* Correlation or an expired one, returns an unexpired Correlation of the
\* destination than which none was created later, and none when the
\* destination has no unexpired Correlation.
C24_RecencyFallback ==
    ( /\ last.op = "resolve"
      /\ \/ last.context \in {NoContext, EmptyContext}
         \/ \A c \in corrs : c.bot_message_id = last.context => c.window_expires_at <= now )
    => IF Unexpired(last.group_id) = {}
       THEN last.result = {}
       ELSE \E c \in Unexpired(last.group_id) :
               /\ last.result = {c}
               /\ \A d \in Unexpired(last.group_id) : d.created_at <= c.created_at

\* C24 witness: a reply without context has just been resolved to the later
\* of two unexpired Correlations of its destination.
C24_Witness ==
    /\ last.op = "resolve"
    /\ last.context = NoContext
    /\ \E c \in Unexpired(last.group_id), d \in Unexpired(last.group_id) :
          /\ d.created_at < c.created_at
          /\ last.result = {c}

\* C25: the sweep deletes the Correlations with window_expires_at < now and
\* no other, returns their number and changes no Job, Group or
\* PendingSchedule.
C25_Sweep ==
    [][ last'.op = "sweep" =>
          /\ corrs' = {c \in corrs : c.window_expires_at >= now}
          /\ last'.result = Cardinality(corrs \ corrs')
          /\ UNCHANGED <<jobs, groups, pending>> ]_vars

\* C25 witness: the sweep has just deleted one Correlation and kept one
\* whose window ends at this instant.
C25_Witness ==
    /\ last.op = "sweep"
    /\ last.result = 1
    /\ \E c \in corrs : c.window_expires_at = now
    /\ \E j \in DOMAIN jobs : CorrelationsOf(j) = {} /\ jobs[j].status = SENT

\* C27: no two Groups have aliases that are equal when letter case is
\* ignored; a register leaves for its alias one Group with the group id and
\* name given and changes no other Group; an unregister returns TRUE and
\* removes the Group when the alias is registered, and returns FALSE and
\* changes nothing when it is not.
C27_GroupRegistry ==
    /\ [](\A a \in DOMAIN groups, b \in DOMAIN groups : EqIgnoreCase(a, b) => a = b)
    /\ [][ (last'.op = "register_group" /\ ~Raised(last')) =>
             \E a \in DOMAIN groups' :
                /\ EqIgnoreCase(a, last'.input)
                /\ groups'[a] = [group_id |-> last'.group_id,
                                 group_name |-> last'.group_name]
                /\ DOMAIN groups' = DOMAIN groups \cup {a}
                /\ \A b \in DOMAIN groups' \ {a} : groups'[b] = groups[b] ]_vars
    /\ [][ last'.op = "unregister_group" =>
             LET ex == {a \in DOMAIN groups : EqIgnoreCase(a, last'.alias)} IN
             /\ last'.result = (ex # {})
             /\ DOMAIN groups' = DOMAIN groups \ ex
             /\ \A b \in DOMAIN groups' : groups'[b] = groups[b] ]_vars

\* C27 witness: "Team" has just been registered anew over the Group that
\* alias team had, with another group id and without a name, a Group ops
\* standing beside it.
C27_Witness ==
    /\ last.op = "register_group"
    /\ last.input = "Team"
    /\ DOMAIN groups = {"team", "ops"}
    /\ groups["team"] = [group_id |-> "222", group_name |-> NULL]
    /\ groups["ops"] = [group_id |-> "222", group_name |-> "Team"]

\* the Jobs that carry the key a schedule call computes: the group id its
\* alias resolves to, its text, and its run_at or, for a run_at that is not
\* later than the clock, the clock + 10 s
JobsOfCall(l) ==
    {j \in DOMAIN jobs :
        /\ \E a \in DOMAIN groups :
              EqIgnoreCase(a, l.alias) /\ jobs[j].group_id = groups[a].group_id
        /\ jobs[j].text = l.text
        /\ jobs[j].run_at = IF l.run_at > now THEN l.run_at ELSE now + GraceBumpSeconds}

\* C30: a schedule call for which a Job with its key exists, in whatever
\* status, returns that Job, leaves every Job as it was, creates none and
\* hands no task to the dispatcher.
C30_ExistingReturnedUnchanged ==
    [][ (last'.op = "schedule" /\ JobsOfCall(last') # {}) =>
          /\ last'.result = "existing"
          /\ last'.id \in JobsOfCall(last')
          /\ UNCHANGED <<jobs, queue, nextTask, revoked>> ]_vars

\* C30 witness: schedule has just returned a Job that is Failed, and another
\* Job with another key is Sent.
C30_Witness ==
    /\ last.op = "schedule"
    /\ last.result = "existing"
    /\ last.id \in DOMAIN jobs
    /\ jobs[last.id].status = FAILED
    /\ jobs[last.id].last_error # NULL
    /\ \E j \in DOMAIN jobs : jobs[j].status = SENT

\* C26: a direct message whose sender is not the configured owner changes no
\* Job, Group, PendingSchedule or Correlation, submits and revokes no
\* dispatcher task and sends no reply, whatever its text.
C26_SingleOwner ==
    [][(last'.op = "owner_message" /\ last'.sender # OwnerId)
        => /\ UNCHANGED <<dbVars, dispVars, procVars, histVars>>
           /\ last'.reply = "none"]_vars

\* a stranger has sent a well-formed schedule command for a registered group
C26_Witness ==
    /\ last.op = "owner_message"
    /\ last.sender = Stranger
    /\ last.text = ScheduleText
    /\ "team" \in DOMAIN groups
    /\ jobs = <<>>

\* C28: the owner text 'schedule to <alias> at <when>' with a registered
\* alias and a future time is parsed as ScheduleConfig and arms the owner's
\* PendingSchedule slot; it does not produce a ParseError.
C28_ScheduleConfigParsed ==
    [][(/\ last'.op = "owner_message"
        /\ last'.sender = OwnerId
        /\ last'.text = ScheduleConfigText
        /\ last'.committed
        /\ "team" \in DOMAIN groups
        /\ now < 400)
        => /\ last'.command # "ParseError"
           /\ \E p \in pending' : p.owner_id = OwnerId /\ p.group_alias = "team"]_vars

\* the texts of OwnerTexts that have the shape of no command form
MatchesNoForm == {ListAllText, UnknownText}

\* C29: owner text that matches none of the command forms signals ParseError,
\* the forms being matched whole, without regard to letter case or surrounding
\* whitespace; with the owner Idle the only effect is the usage-help reply:
\* no Job, Group or PendingSchedule changes and no task is submitted or revoked.
C29_UnrecognizedNonFatal ==
    [][(last'.op = "owner_message" /\ last'.sender = OwnerId)
        => /\ last'.text \in MatchesNoForm => last'.command = "ParseError"
           /\ last'.text = ListText => last'.command = "list"
           /\ (last'.command = "ParseError" /\ get_pending_schedule(OwnerId) = {})
                => /\ last'.reply = "usage"
                   /\ UNCHANGED <<dbVars, dispVars, procVars, histVars>>]_vars

\* the Idle owner has sent 'list all' with a group registered and a Job scheduled
C29_Witness ==
    /\ last.op = "owner_message"
    /\ last.sender = OwnerId
    /\ last.text = ListAllText
    /\ last.command = "ParseError"
    /\ last.reply = "usage"
    /\ get_pending_schedule(OwnerId) = {}
    /\ jobs # <<>>

\* C31: a group message leads to a notification of the owner if and only if
\* it is not the bot's own message and find_correlation_for_context returns a
\* Correlation for its group id and context id; then one interactive request
\* is issued, followed by one template request only when the API asks for a
\* template, and at most one of them is accepted. Otherwise no request is
\* issued. The database and the dispatcher are left alone.
C31_GroupReplyRouting ==
    [][last'.op = "group_message"
        => LET l == last'
               found == find_correlation_for_context(l.group_id, l.context)
               forwards == l.sender # BotNumber /\ l.group_id # NoGroupId /\ found # {}
           IN /\ UNCHANGED <<dbVars, dispVars, procVars, histVars>>
              /\ ~forwards => l.requests = <<>> /\ l.delivered = 0
              /\ forwards => /\ l.result \subseteq found /\ l.result # {}
                             /\ l.requests[1] = "interactive"
                             /\ Len(l.requests) <= 2
                             /\ Len(l.requests) = 2 => l.requests[2] = "template"
                             /\ l.delivered <= 1]_vars

\* a member's reply quoting the bot's message has been forwarded once, while
\* the bot's own message in the same group would resolve as well
C31_Witness ==
    /\ last.op = "group_message"
    /\ last.sender = Member
    /\ \E c \in last.result : c.bot_message_id = last.context
    /\ last.requests = <<"interactive">>
    /\ last.delivered = 1

\* C35: find_correlation_for_context never returns a Correlation of another
\* group than the one asked for, nor one whose window_expires_at is not
\* strictly after now.
C35_ResolveSound ==
    [][last'.op = "resolve"
        => \A c \in last'.result :
              /\ c.group_id = last'.group_id
              /\ c.window_expires_at > now]_vars

\* C32: a ScheduleConfig whose alias does not resolve or whose run_at is not
\* strictly after now is refused with that reason, and no PendingSchedule row
\* is created or modified by it: an Armed slot keeps its alias and run_at, and
\* no write is left to do. A ScheduleConfig that goes on to the write has a
\* registered alias and a run_at after now.
C32_RejectedScheduleConfig ==
    [][/\ (last'.op = "schedule_config"
            /\ last'.result \in {"UnknownGroupAlias", "PastSchedule"})
          => /\ UNCHANGED <<dbVars, dispVars, procVars>>
             /\ (last'.result = "UnknownGroupAlias") = ~AliasRegistered(last'.alias)
             /\ last'.result = "PastSchedule" => last'.run_at <= now
       /\ last'.op = "schedule_config_begin"
          => \E r \in BagToSet(requests') :
                /\ requests' = requests (+) One(r)
                /\ r.group_alias \in DOMAIN groups
                /\ r.run_at > now]_vars

\* the Armed owner has sent a ScheduleConfig with a run_at that has passed,
\* and the slot still holds the run_at it was armed with
C32_Witness ==
    /\ last.op = "schedule_config"
    /\ last.result = "PastSchedule"
    /\ last.run_at <= now
    /\ \E p \in get_pending_schedule(OwnerId) : p.run_at > now /\ p.run_at # last.run_at

\* what completing the PendingSchedule p with the content of step l did,
\* against a direct schedule(p.group_alias, content, p.run_at) in the state
\* before the step: both succeed or both fail, success means the alias is
\* registered and now - run_at <= 5 minutes, and a Job created has the stored
\* run_at if that is after now and now + 10 seconds otherwise
SameAsDirect(p, l) ==
    LET direct == schedule_job_outcome(p.group_alias, l.text, p.run_at, OwnerId)
        Succeeds(result) == result \in {"created", "existing"}
    IN /\ Succeeds(l.result) = Succeeds(direct.result)
       /\ Succeeds(l.result) = (/\ p.group_alias \in DOMAIN groups
                                /\ now - p.run_at <= GraceMinutes * 60)
       /\ ~Succeeds(l.result) => l.result = direct.result
       /\ (l.result = "created" /\ l.committed)
            => jobs'[l.id].run_at = IF p.run_at > now THEN p.run_at
                                    ELSE now + GraceBumpSeconds

\* C33: completing the pending schedule with content arriving at now succeeds
\* exactly when a direct schedule of the stored alias and run_at at now would
\* succeed (now - run_at <= 5 minutes), and yields the same Job.run_at.
C33_SameGraceRule ==
    [][(last'.op = "content" /\ last'.result \notin {"NotArmed", "EmptyContent"})
        => \A p \in get_pending_schedule(OwnerId) : SameAsDirect(p, last')]_vars

\* C34: in every committed state, every Job that has at least one
\* MessageCorrelation has status Sent.
C34_CorrelatedJobsAreSent ==
    \A c \in corrs : c.job_id \in DOMAIN jobs /\ jobs[c.job_id].status = SENT

\* the columns of a Job that are written once
Written(job) ==
    <<job.group_id, job.group_alias, job.text, job.run_at, job.created_by,
      job.correlation_key>>

\* C36: the destination id, source alias, text, run_at, created_by and
\* correlation_key of a Job never change once the Job exists; registering the
\* alias again or unregistering it leaves every Job as it is; and a send goes
\* to the destination id stored on the Job, which the Correlation records.
C36_JobFrame ==
    [][/\ \A j \in DOMAIN jobs : j \in DOMAIN jobs' /\ Written(jobs'[j]) = Written(jobs[j])
       /\ last'.op \in {"register_group", "unregister_group"} => jobs' = jobs
       /\ last'.op = "send_ok"
            => /\ corrs' # corrs
               /\ \A c \in corrs' \ corrs : c.group_id = jobs[c.job_id].group_id]_vars

\* a Job has just been sent to the group it was scheduled for while its alias
\* names another group
C36_Witness ==
    /\ last.op = "send_ok"
    /\ "team" \in DOMAIN groups
    /\ jobs[last.id].group_alias = "team"
    /\ jobs[last.id].group_id # groups["team"].group_id
    /\ \E c \in corrs : c.job_id = last.id /\ c.group_id = jobs[last.id].group_id

\* the commands that are to leave the PendingSchedule alone
KeepsSlot == {"list", "cancel", "groups", "register", "unregister"}

\* C37: while the owner is Armed, a text that parses as a command is executed
\* as that command and no Job is made of it; List, Cancel, Groups,
\* RegisterGroup and UnregisterGroup leave the PendingSchedule as it is; only
\* a text that fails to parse is taken as the content.
C37_CommandsWhileArmed ==
    [][get_pending_schedule(OwnerId) # {}
        => /\ last'.op = "owner_message"
                => /\ last'.command = parse_owner_command(last'.text).kind
                   /\ last'.command # "ParseError"
                   /\ \A j \in DOMAIN jobs' \ DOMAIN jobs : jobs'[j].text # last'.text
                   /\ last'.command \in KeepsSlot => pending' = pending
           /\ last'.op = "content"
                => parse_owner_command(last'.text).kind = "ParseError"]_vars

\* the Armed owner has cancelled a Job and is still Armed
C37_Witness ==
    /\ last.op = "owner_message"
    /\ last.command = "cancel"
    /\ last.armed
    /\ last.committed
    /\ \E j \in DOMAIN jobs : jobs[j].status = CANCELLED
    /\ get_pending_schedule(OwnerId) # {}

\* C38: a Schedule command with quoted text that succeeds removes the
\* owner's PendingSchedule; one that fails (time not parseable,
\* UnknownGroupAlias, PastSchedule) leaves the PendingSchedule as it is and
\* creates no Job.
C38_ScheduleCommandAndSlot ==
    [][(last'.op = "owner_message" /\ last'.command = "schedule")
        => /\ last'.armed = (get_pending_schedule(OwnerId) # {})
           /\ last'.text = ScheduleBadTimeText => last'.reply = "unparseable time"
           /\ IF last'.reply \in {"created", "existing"}
              THEN last'.committed => get_pending_schedule(OwnerId)' = {}
              ELSE /\ last'.reply \in {"unparseable time", "UnknownGroupAlias", "PastSchedule"}
                   /\ pending' = pending
                   /\ jobs' = jobs]_vars

\* the Armed owner's Schedule command has created a Job and the slot is empty
C38_Witness ==
    /\ last.op = "owner_message"
    /\ last.command = "schedule"
    /\ last.armed
    /\ last.reply = "created"
    /\ last.committed
    /\ pending = {}
    /\ \E j \in DOMAIN jobs : jobs[j].text = "Standup" /\ jobs[j].status = SCHEDULED

\* C39: every Job created with status Scheduled that is never cancelled
\* eventually has status Sent or Failed.
C39_EventuallySentOrFailed ==
    \A j \in JobIds :
        (j \in DOMAIN jobs /\ jobs[j].status = SCHEDULED)
            ~> (j \in DOMAIN jobs /\ jobs[j].status \in {SENT, FAILED})

\* C40: every task submitted by schedule refers to a persisted Job once the
\* operation has ended; after a rollback no task of the Job remains.
C40_NoOrphanTasks ==
    \A m \in BagToSet(queue) : m.job_id \in DOMAIN jobs

====
